---- MODULE Spec2Model ----
(***************************************************************************)
(* Model of the dtle MySQL/Oracle replication core.                        *)
(*                                                                         *)
(* Part 1: the SQL-to-AST merge engine (mergeAlterToTable and helpers).    *)
(* Go slices are modelled as headers [arr, len, cap] over backing arrays   *)
(* kept in a heap, and *ast.ColumnDef / *ast.Constraint values as heap     *)
(* objects named by an id, because mergeAlterToTable lets the new table    *)
(* share the old table's backing arrays and objects.                       *)
(* Part 2: the TableChecker's column lookup (checkColumnByName).           *)
(* Part 3: the source Inspector (InitDBConnections and                     *)
(* ValidateOriginalTable).                                                 *)
(* Part 4: the applier's incremental subscription callback.                *)
(* Part 5: the applier's bulk-load apply (ApplyEventQueries).              *)
(* Part 6: the applier's error and shutdown path (onError and Shutdown),   *)
(* called by several tasks at once.                                        *)
(* Part 7: the applier's start-up (Run) and the subscription callback that *)
(* runs beside it.                                                         *)
(* Part 8: the applier's statistics (Stats).                               *)
(* Part 9: the log records of Inspector.InitDBConnections.                 *)
(* Part 10: the GTID set and its checkpoint uploads.                       *)
(* Each part has its own variables, initial predicate and actions; the     *)
(* specifications at the end of the module run one part and leave the      *)
(* others at rest.                                                         *)
(***************************************************************************)
EXTENDS Integers, Sequences, FiniteSets, TLC

\* the merge engine
VARIABLES catalog, last, nMerges

mergeVars == <<catalog, last, nMerges>>

\* the TableChecker
VARIABLES schemaTables, lookup

checkerVars == <<schemaTables, lookup>>

\* the Inspector: its fields and the table descriptor it validates, and
\* the call it made last
VARIABLES inspector, call

inspectorVars == <<inspector, call>>

\* the applier and its incremental subscription on the message bus
VARIABLES applier, subscription

applierVars == <<applier, subscription>>

\* the DumpEntry handed to ApplyEventQueries and the state of that call
VARIABLES entry, apply

applyVars == <<entry, apply>>

\* the ApplierOracle fields that onError and Shutdown work on, and the
\* tasks that call them
VARIABLES oracle, tasks

lifecycleVars == <<oracle, tasks>>

\* the ApplierOracle fields that Run works on, and how far Run got
VARIABLES run

\* the figures Stats reads and the statistics it last returned
VARIABLES stats

\* the connection descriptor of the Inspector and the records its logger
\* received
VARIABLES logged

\* the applier's GTID set, its checkpoint channel and the uploads made
VARIABLES gtid

laterVars == <<run, stats, logged, gtid>>

vars == <<mergeVars, checkerVars, inspectorVars, applierVars, applyVars,
          lifecycleVars, laterVars>>

\* what the actions of one part leave alone
notMerge == <<checkerVars, inspectorVars, applierVars, applyVars,
             lifecycleVars, laterVars>>
notChecker == <<mergeVars, inspectorVars, applierVars, applyVars, lifecycleVars, laterVars>>
notInspector == <<mergeVars, checkerVars, applierVars, applyVars, lifecycleVars, laterVars>>
notApplier == <<mergeVars, checkerVars, inspectorVars, applyVars, lifecycleVars, laterVars>>
notApply == <<mergeVars, checkerVars, inspectorVars, applierVars, lifecycleVars, laterVars>>
notLifecycle == <<mergeVars, checkerVars, inspectorVars, applierVars, applyVars,
                 laterVars>>
earlierVars == <<mergeVars, checkerVars, inspectorVars, applierVars, applyVars,
                lifecycleVars>>
notRun == <<earlierVars, stats, logged, gtid>>
notStats == <<earlierVars, run, logged, gtid>>
notLogged == <<earlierVars, run, stats, gtid>>
notGtid == <<earlierVars, run, stats, logged>>

(* ------------------------------ bounds --------------------------------- *)

\* most ALTER TABLE statements folded into the catalog in one run
MaxMerges == 2

\* most alter specifications in one ALTER TABLE statement
MaxSpecs == 2

(* --------------------------- AST values -------------------------------- *)

Range(s) == {s[i] : i \in 1..Len(s)}

\* strings.ToLower over the identifiers of the model
ToLower(s) ==
  CASE s = "A" -> "a"
    [] s = "B" -> "b"
    [] s = "D" -> "d"
    [] OTHER -> s

\* model.NewCIStr: an identifier with its original and lower-cased form
NewCIStr(s) == [O |-> s, L |-> ToLower(s)]

ColumnOptionPrimaryKey == "ColumnOptionPrimaryKey"
ColumnOptionDefaultValue == "ColumnOptionDefaultValue"
ColumnOptionNotNull == "ColumnOptionNotNull"

ConstraintPrimaryKey == "ConstraintPrimaryKey"
ConstraintUniq == "ConstraintUniq"
ConstraintKey == "ConstraintKey"

\* *ast.ColumnOption (never written after construction: kept by value)
ColumnOption(tp, expr) == [Tp |-> tp, Expr |-> expr]

\* ast.ColumnDef: Name is a CIStr, Options the option slice as seen through
\* the one header the ColumnDef holds
ColumnDef(name, options) == [Name |-> NewCIStr(name), Options |-> options]

\* ast.Constraint
Constraint(tp, name) == [Tp |-> tp, Name |-> name]

NoConstraint == Constraint("none", "")

AlterTableRenameTable == "AlterTableRenameTable"
AlterTableDropColumn == "AlterTableDropColumn"
AlterTableChangeColumn == "AlterTableChangeColumn"
AlterTableModifyColumn == "AlterTableModifyColumn"
AlterTableAlterColumn == "AlterTableAlterColumn"
AlterTableAddColumns == "AlterTableAddColumns"
AlterTableDropPrimaryKey == "AlterTableDropPrimaryKey"
AlterTableDropIndex == "AlterTableDropIndex"
AlterTableRenameIndex == "AlterTableRenameIndex"
AlterTableAddConstraint == "AlterTableAddConstraint"

\* ast.AlterTableSpec, with the fields mergeAlterToTable reads
AlterTableSpec(tp, oldCol, newCols, name, fromKey, toKey, con, newTable) ==
  [Tp |-> tp, OldColumnName |-> NewCIStr(oldCol), NewColumns |-> newCols,
   Name |-> name, FromKey |-> NewCIStr(fromKey), ToKey |-> NewCIStr(toKey),
   Constraint |-> con, NewTable |-> newTable]

(* ------------------------- Go slices and heap -------------------------- *)

\* a slice header
Slice(arr, len, cap) == [arr |-> arr, len |-> len, cap |-> cap]

\* capacity chosen by append when the backing array is full (small slices
\* double)
GrowCap(cap) == IF cap = 0 THEN 1 ELSE 2 * cap

\* append(s, x): in place while len < cap, else into a new backing array
AppendSlice(arrs, s, x) ==
  IF s.len < s.cap
  THEN [arrs |-> [arrs EXCEPT ![s.arr][s.len + 1] = x],
        s |-> [s EXCEPT !.len = s.len + 1]]
  ELSE LET ncap == GrowCap(s.cap)
           fresh == [j \in 1..ncap |->
                       IF j <= s.len THEN arrs[s.arr][j]
                       ELSE IF j = s.len + 1 THEN x ELSE 0]
       IN [arrs |-> Append(arrs, fresh),
           s |-> Slice(Len(arrs) + 1, s.len + 1, ncap)]

\* cap after building a slice of n elements by appending one at a time
RECURSIVE BuiltCap(_)
BuiltCap(n) ==
  IF n = 0 THEN 0
  ELSE IF n <= BuiltCap(n - 1) THEN BuiltCap(n - 1) ELSE GrowCap(BuiltCap(n - 1))

\* the first cells of a backing array replaced by the cells of a
WritePrefix(arr, a) ==
  [j \in 1..Len(arr) |-> IF j <= Len(a) THEN a[j] ELSE arr[j]]

\* for i, x := range s { if match(x) { s = append(s[:i], s[i+1:]...) } }
\* a: the cells the range header covers, read when their turn comes;
\* len: the current length of s; the removal shifts the cells behind i left
\* in place, and s[i+1:] panics once i+1 exceeds the current length.
RECURSIVE RemoveLoop(_, _, _, _)
RemoveLoop(a, len, i, Match) ==
  IF i > Len(a) THEN [a |-> a, len |-> len, panic |-> FALSE]
  ELSE IF a[i] \in Match
       THEN IF i > len
            THEN [a |-> a, len |-> len, panic |-> TRUE]
            ELSE RemoveLoop([j \in 1..Len(a) |->
                               IF j >= i /\ j < len THEN a[j + 1] ELSE a[j]],
                            len - 1, i + 1, Match)
       ELSE RemoveLoop(a, len, i + 1, Match)

\* the pointers a slice header shows
Cells(arrs, s) == [i \in 1..s.len |-> arrs[s.arr][i]]

\* the ColumnDef pointers of a table, in order
ColIds(h, t) == Cells(h.colArr, t.Cols)

\* the Constraint pointers of a table, in order
ConIds(h, t) == Cells(h.conArr, t.Constraints)

\* what a reader of the table sees: name, columns and constraints by value
View(h, t) ==
  [Table |-> t.Table,
   Cols |-> [i \in 1..t.Cols.len |-> h.col[ColIds(h, t)[i]]],
   Constraints |-> [i \in 1..t.Constraints.len |-> h.con[ConIds(h, t)[i]]]]

(* ------------------------- inspector helpers --------------------------- *)

\* HasOneInOptions: some option has one of the given types
HasOneInOptions(Options, opTp) ==
  \E i \in 1..Len(Options) : Options[i].Tp \in opTp

\* getAlterTableSpecByTp: the specs of the given types, in statement order
getAlterTableSpecByTp(specs, ts) ==
  SelectSeq(specs, LAMBDA spec : spec.Tp \in ts)

\* GetPrimaryKey (its second result): a PRIMARY KEY constraint, or else a
\* column with a PRIMARY KEY option
GetPrimaryKey(stmt) ==
  \/ \E i \in 1..Len(stmt.Constraints) :
       stmt.Constraints[i].Tp = ConstraintPrimaryKey
  \/ \E i \in 1..Len(stmt.Cols) :
       HasOneInOptions(stmt.Cols[i].Options, {ColumnOptionPrimaryKey})

hasPrimaryKey(stmt) == GetPrimaryKey(stmt)

(* ----------------------- mergeAlterToTable steps ----------------------- *)
\* A merge in progress is m = [h, nt, st]: the heap, the newTable struct
\* and st = "run" (still folding), "orig" (return oldTable, nil was taken)
\* or "panic" (a slice expression went out of range).

\* ids of the columns of newTable whose lower-cased name is l
ColsNamed(m, l) == {id \in Range(ColIds(m.h, m.nt)) : m.h.col[id].Name.L = l}

\* ids of the constraints of newTable named n
ConsNamed(m, n) == {id \in Range(ConIds(m.h, m.nt)) : m.h.con[id].Name = n}

\* case AlterTableRenameTable
RenameTableStep(m, spec) == [m EXCEPT !.nt.Table = spec.NewTable]

\* the removal loop run on newTable.Cols, which may still share its backing
\* array with oldTable.Cols
RemoveCols(m, Match) ==
  LET s == m.nt.Cols
      r == RemoveLoop(Cells(m.h.colArr, s), s.len, 1, Match)
      m2 == [m EXCEPT !.h.colArr[s.arr] = WritePrefix(@, r.a),
                      !.nt.Cols.len = r.len]
  IN IF r.panic THEN [m2 EXCEPT !.st = "panic"] ELSE m2

\* the removal loop run on newTable.Constraints
RemoveCons(m, Match) ==
  LET s == m.nt.Constraints
      r == RemoveLoop(Cells(m.h.conArr, s), s.len, 1, Match)
      m2 == [m EXCEPT !.h.conArr[s.arr] = WritePrefix(@, r.a),
                      !.nt.Constraints.len = r.len]
  IN IF r.panic THEN [m2 EXCEPT !.st = "panic"] ELSE m2

\* (mutant) DROP COLUMN matching the name as written
DropColumnStepCaseSensitive(m, spec) ==
  LET Match == {id \in Range(ColIds(m.h, m.nt)) :
                  m.h.col[id].Name.O = spec.OldColumnName.O}
  IN IF Match = {} THEN [m EXCEPT !.st = "orig"] ELSE RemoveCols(m, Match)

\* case AlterTableDropColumn
DropColumnStep(m, spec) ==
  LET Match == ColsNamed(m, spec.OldColumnName.L)
  IN IF Match = {} THEN [m EXCEPT !.st = "orig"] ELSE RemoveCols(m, Match)

\* newTable.Cols[i] = spec.NewColumns[0] for every column named l
ReplaceCols(m, l, newCol) ==
  LET Match == ColsNamed(m, l)
      s == m.nt.Cols
      id == Len(m.h.col) + 1
  IN IF Match = {} THEN [m EXCEPT !.st = "orig"]
     ELSE [m EXCEPT !.h.col = Append(@, newCol),
                    !.h.colArr[s.arr] =
                       [j \in 1..Len(@) |->
                          IF j <= s.len /\ @[j] \in Match THEN id ELSE @[j]]]

\* case AlterTableChangeColumn
ChangeColumnStep(m, spec) ==
  ReplaceCols(m, spec.OldColumnName.L, spec.NewColumns[1])

\* (mutant) MODIFY COLUMN looking the column up by OldColumnName
ModifyColumnStepByOldName(m, spec) ==
  ReplaceCols(m, spec.OldColumnName.L, spec.NewColumns[1])

\* case AlterTableModifyColumn
ModifyColumnStep(m, spec) ==
  ReplaceCols(m, spec.NewColumns[1].Name.L, spec.NewColumns[1])

\* (mutant) SET DEFAULT that always appends the new default
AlterOptionsAppend(Options, newCol) ==
  IF newCol.Options = <<>>
  THEN LET r == RemoveLoop(Options, Len(Options), 1,
                  {op \in Range(Options) : op.Tp = ColumnOptionDefaultValue})
       IN [o |-> SubSeq(r.a, 1, r.len), panic |-> r.panic]
  ELSE [o |-> Options \o newCol.Options, panic |-> FALSE]

\* the default-value update of one column: its new Options and whether the
\* removal went out of range
AlterOptions(Options, newCol) ==
  IF newCol.Options = <<>>
  THEN LET r == RemoveLoop(Options, Len(Options), 1,
                  {op \in Range(Options) : op.Tp = ColumnOptionDefaultValue})
       IN [o |-> SubSeq(r.a, 1, r.len), panic |-> r.panic]
  ELSE IF HasOneInOptions(Options, {ColumnOptionDefaultValue})
       THEN [o |-> [i \in 1..Len(Options) |->
                      IF Options[i].Tp = ColumnOptionDefaultValue
                      THEN newCol.Options[1] ELSE Options[i]],
             panic |-> FALSE]
       ELSE [o |-> Options \o newCol.Options, panic |-> FALSE]

\* for _, col := range newTable.Cols { ... } of the AlterColumn case, from
\* the i-th pointer on
RECURSIVE AlterColumnLoop(_, _, _, _)
AlterColumnLoop(m, ids, i, newCol) ==
  IF i > Len(ids) \/ m.st # "run" THEN m
  ELSE IF m.h.col[ids[i]].Name.L = newCol.Name.L
       THEN LET r == AlterOptions(m.h.col[ids[i]].Options, newCol)
                m2 == [m EXCEPT !.h.col[ids[i]].Options = r.o]
            IN AlterColumnLoop(IF r.panic THEN [m2 EXCEPT !.st = "panic"] ELSE m2,
                               ids, i + 1, newCol)
       ELSE AlterColumnLoop(m, ids, i + 1, newCol)

\* case AlterTableAlterColumn
AlterColumnStep(m, spec) ==
  LET newCol == spec.NewColumns[1]
  IN IF ColsNamed(m, newCol.Name.L) = {} THEN [m EXCEPT !.st = "orig"]
     ELSE AlterColumnLoop(m, ColIds(m.h, m.nt), 1, newCol)

\* the loop over spec.NewColumns, from the i-th new column on
RECURSIVE AddColumnsLoop(_, _, _)
AddColumnsLoop(m, newCols, i) ==
  IF i > Len(newCols) THEN m
  ELSE IF ColsNamed(m, newCols[i].Name.L) # {} THEN [m EXCEPT !.st = "orig"]
       ELSE LET id == Len(m.h.col) + 1
                r == AppendSlice(m.h.colArr, m.nt.Cols, id)
            IN AddColumnsLoop([m EXCEPT !.h.col = Append(@, newCols[i]),
                                        !.h.colArr = r.arrs,
                                        !.nt.Cols = r.s],
                              newCols, i + 1)

\* (mutant) ADD COLUMN that stops at the first new column
AddColumnsStepFirstOnly(m, spec) ==
  AddColumnsLoop(m, SubSeq(spec.NewColumns, 1, 1), 1)

\* case AlterTableAddColumns
AddColumnsStep(m, spec) == AddColumnsLoop(m, spec.NewColumns, 1)

\* the PRIMARY KEY options removed from the columns of newTable, from the
\* i-th pointer on
RECURSIVE DropPkOptionsLoop(_, _, _)
DropPkOptionsLoop(m, ids, i) ==
  IF i > Len(ids) \/ m.st # "run" THEN m
  ELSE LET Options == m.h.col[ids[i]].Options
           r == RemoveLoop(Options, Len(Options), 1,
                  {op \in Range(Options) : op.Tp = ColumnOptionPrimaryKey})
           m2 == [m EXCEPT !.h.col[ids[i]].Options = SubSeq(r.a, 1, r.len)]
       IN DropPkOptionsLoop(IF r.panic THEN [m2 EXCEPT !.st = "panic"] ELSE m2,
                            ids, i + 1)

\* (mutant) DROP PRIMARY KEY that leaves the column options alone
DropPrimaryKeyStepConstraintsOnly(m, spec) ==
  IF ~hasPrimaryKey(View(m.h, m.nt)) THEN [m EXCEPT !.st = "orig"]
  ELSE RemoveCons(m, {id \in Range(ConIds(m.h, m.nt)) :
                        m.h.con[id].Tp = ConstraintPrimaryKey})

\* case AlterTableDropPrimaryKey
DropPrimaryKeyStep(m, spec) ==
  IF ~hasPrimaryKey(View(m.h, m.nt)) THEN [m EXCEPT !.st = "orig"]
  ELSE LET m2 == RemoveCons(m, {id \in Range(ConIds(m.h, m.nt)) :
                                  m.h.con[id].Tp = ConstraintPrimaryKey})
       IN DropPkOptionsLoop(m2, ColIds(m2.h, m2.nt), 1)

\* (mutant) DROP INDEX that cuts the constraint list behind the match
DropIndexStepTruncate(m, spec) ==
  LET Match == ConsNamed(m, spec.Name)
      ids == ConIds(m.h, m.nt)
      first == CHOOSE i \in 1..Len(ids) :
                 ids[i] \in Match /\ \A j \in 1..(i - 1) : ids[j] \notin Match
  IN IF Match = {} THEN [m EXCEPT !.st = "orig"]
     ELSE [m EXCEPT !.nt.Constraints.len = first - 1]

\* case AlterTableDropIndex
DropIndexStep(m, spec) ==
  LET Match == ConsNamed(m, spec.Name)
  IN IF Match = {} THEN [m EXCEPT !.st = "orig"] ELSE RemoveCons(m, Match)

\* case AlterTableRenameIndex
RenameIndexStep(m, spec) ==
  LET Match == ConsNamed(m, spec.FromKey.O)
  IN IF Match = {} THEN [m EXCEPT !.st = "orig"]
     ELSE [m EXCEPT !.h.con = [id \in 1..Len(@) |->
                                 IF id \in Match
                                 THEN [@[id] EXCEPT !.Name = spec.ToKey.O]
                                 ELSE @[id]]]

\* newTable.Constraints = append(newTable.Constraints, spec.Constraint)
AppendConstraint(m, con) ==
  LET id == Len(m.h.con) + 1
      r == AppendSlice(m.h.conArr, m.nt.Constraints, id)
  IN [m EXCEPT !.h.con = Append(@, con), !.h.conArr = r.arrs,
               !.nt.Constraints = r.s]

\* (mutant) ADD CONSTRAINT whose primary-key test reads the constraints only
AddConstraintStepConstraintPkOnly(m, spec) ==
  IF spec.Constraint.Tp = ConstraintPrimaryKey
  THEN IF \E id \in Range(ConIds(m.h, m.nt)) :
             m.h.con[id].Tp = ConstraintPrimaryKey
       THEN [m EXCEPT !.st = "orig"]
       ELSE AppendConstraint(m, spec.Constraint)
  ELSE IF ConsNamed(m, spec.Constraint.Name) # {} THEN [m EXCEPT !.st = "orig"]
       ELSE AppendConstraint(m, spec.Constraint)

\* case AlterTableAddConstraint
AddConstraintStep(m, spec) ==
  IF spec.Constraint.Tp = ConstraintPrimaryKey
  THEN IF hasPrimaryKey(View(m.h, m.nt)) THEN [m EXCEPT !.st = "orig"]
       ELSE AppendConstraint(m, spec.Constraint)
  ELSE IF ConsNamed(m, spec.Constraint.Name) # {} THEN [m EXCEPT !.st = "orig"]
       ELSE AppendConstraint(m, spec.Constraint)

\* the body of the loop over the specs of one type
SpecStep(m, spec) ==
  CASE spec.Tp = AlterTableRenameTable -> RenameTableStep(m, spec)
    [] spec.Tp = AlterTableDropColumn -> DropColumnStep(m, spec)
    [] spec.Tp = AlterTableChangeColumn -> ChangeColumnStep(m, spec)
    [] spec.Tp = AlterTableModifyColumn -> ModifyColumnStep(m, spec)
    [] spec.Tp = AlterTableAlterColumn -> AlterColumnStep(m, spec)
    [] spec.Tp = AlterTableAddColumns -> AddColumnsStep(m, spec)
    [] spec.Tp = AlterTableDropPrimaryKey -> DropPrimaryKeyStep(m, spec)
    [] spec.Tp = AlterTableDropIndex -> DropIndexStep(m, spec)
    [] spec.Tp = AlterTableRenameIndex -> RenameIndexStep(m, spec)
    [] spec.Tp = AlterTableAddConstraint -> AddConstraintStep(m, spec)

\* a loop over specs: each in turn, until one returns or panics
RECURSIVE FoldSpecs(_, _, _)
FoldSpecs(m, specs, i) ==
  IF i > Len(specs) \/ m.st # "run" THEN m
  ELSE FoldSpecs(SpecStep(m, specs[i]), specs, i + 1)

\* (mutant) ADD COLUMN folded before CHANGE COLUMN
MergeOrderAddBeforeChange ==
  <<AlterTableRenameTable, AlterTableDropColumn, AlterTableAddColumns,
    AlterTableChangeColumn, AlterTableModifyColumn, AlterTableAlterColumn,
    AlterTableDropPrimaryKey, AlterTableDropIndex, AlterTableRenameIndex,
    AlterTableAddConstraint>>

\* the order in which mergeAlterToTable takes the alter types
MergeOrder ==
  <<AlterTableRenameTable, AlterTableDropColumn, AlterTableChangeColumn,
    AlterTableModifyColumn, AlterTableAlterColumn, AlterTableAddColumns,
    AlterTableDropPrimaryKey, AlterTableDropIndex, AlterTableRenameIndex,
    AlterTableAddConstraint>>

\* the loops of mergeAlterToTable from the k-th alter type on
RECURSIVE FoldTypes(_, _, _)
FoldTypes(m, specs, k) ==
  IF k > Len(MergeOrder) \/ m.st # "run" THEN m
  ELSE FoldTypes(FoldSpecs(m, getAlterTableSpecByTp(specs, {MergeOrder[k]}), 1),
                 specs, k + 1)

\* mergeAlterToTable(oldTable, alterTable) on heap h: newTable starts as a
\* struct copy of oldTable (same slice headers, same backing arrays)
mergeAlterToTable(h, oldTable, alterTable) ==
  FoldTypes([h |-> h, nt |-> oldTable, st |-> "run"], alterTable, 1)

(* --------------------------- schema catalog ---------------------------- *)

\* the elements of a sequence in order of first occurrence
RECURSIVE FirstOccurrences(_)
FirstOccurrences(s) ==
  IF s = <<>> THEN <<>>
  ELSE LET init == FirstOccurrences(SubSeq(s, 1, Len(s) - 1))
       IN IF s[Len(s)] \in Range(init) THEN init ELSE Append(init, s[Len(s)])

IndexOf(s, x) == CHOOSE i \in 1..Len(s) : s[i] = x

\* The heap as far as table t reaches it, with the objects renumbered in
\* order of first occurrence: pointers carry no value a Go program can see,
\* objects no table points to are garbage, and the cells of a backing array
\* behind len are never read before append overwrites them.
Reachable(h, t) ==
  LET cids == ColIds(h, t)
      cord == FirstOccurrences(cids)
      kids == ConIds(h, t)
      kord == FirstOccurrences(kids)
  IN [h |-> [col |-> [k \in 1..Len(cord) |-> h.col[cord[k]]],
             colArr |-> << [j \in 1..t.Cols.cap |->
                              IF j <= t.Cols.len THEN IndexOf(cord, cids[j]) ELSE 0] >>,
             con |-> [k \in 1..Len(kord) |-> h.con[kord[k]]],
             conArr |-> << [j \in 1..t.Constraints.cap |->
                              IF j <= t.Constraints.len
                              THEN IndexOf(kord, kids[j]) ELSE 0] >>],
      t |-> [Table |-> t.Table,
             Cols |-> Slice(1, t.Cols.len, t.Cols.cap),
             Constraints |-> Slice(1, t.Constraints.len, t.Constraints.cap)]]

\* ParseCreateTableStmt: the CreateTableStmt of a CREATE TABLE with the given
\* columns and constraints, its slices built by appending element by element
ParseCreateTableStmt(table, cols, cons) ==
  [h |-> [col |-> cols,
          colArr |-> << [j \in 1..BuiltCap(Len(cols)) |->
                           IF j <= Len(cols) THEN j ELSE 0] >>,
          con |-> cons,
          conArr |-> << [j \in 1..BuiltCap(Len(cons)) |->
                           IF j <= Len(cons) THEN j ELSE 0] >>],
   t |-> [Table |-> table,
          Cols |-> Slice(1, Len(cols), BuiltCap(Len(cols))),
          Constraints |-> Slice(1, Len(cons), BuiltCap(Len(cons)))]]

PkOpt == ColumnOption(ColumnOptionPrimaryKey, "")
NotNullOpt == ColumnOption(ColumnOptionNotNull, "")
DefaultOpt(v) == ColumnOption(ColumnOptionDefaultValue, v)

\* the CREATE TABLE statements a run starts from
CreateTables ==
  { \* CREATE TABLE t (a INT PRIMARY KEY, B INT NOT NULL DEFAULT 1, c INT,
    \*                 UNIQUE u1 (B), KEY k1 (c))
    ParseCreateTableStmt("t",
      <<ColumnDef("a", <<PkOpt>>),
        ColumnDef("B", <<NotNullOpt, DefaultOpt("1")>>),
        ColumnDef("c", <<>>)>>,
      <<Constraint(ConstraintUniq, "u1"), Constraint(ConstraintKey, "k1")>>),
    \* CREATE TABLE t (a INT, B INT DEFAULT 1, PRIMARY KEY (a), UNIQUE u1 (B))
    ParseCreateTableStmt("t",
      <<ColumnDef("a", <<>>), ColumnDef("B", <<DefaultOpt("1")>>)>>,
      <<Constraint(ConstraintPrimaryKey, ""), Constraint(ConstraintUniq, "u1")>>),
    \* CREATE TABLE t (a INT, c INT NOT NULL, UNIQUE u1 (a), PRIMARY KEY (c))
    ParseCreateTableStmt("t",
      <<ColumnDef("a", <<>>), ColumnDef("c", <<NotNullOpt>>)>>,
      <<Constraint(ConstraintUniq, "u1"), Constraint(ConstraintPrimaryKey, "")>>),
    \* CREATE TABLE t (a INT)
    ParseCreateTableStmt("t", <<ColumnDef("a", <<>>)>>, <<>>) }

Spec0(tp) == AlterTableSpec(tp, "", <<>>, "", "", "", NoConstraint, "")

\* the alter specifications an ALTER TABLE of a run is made of
AlterSpecs ==
  { \* RENAME TO t2
    [Spec0(AlterTableRenameTable) EXCEPT !.NewTable = "t2"],
    \* DROP COLUMN b
    [Spec0(AlterTableDropColumn) EXCEPT !.OldColumnName = NewCIStr("b")],
    \* CHANGE COLUMN A d INT
    [Spec0(AlterTableChangeColumn) EXCEPT !.OldColumnName = NewCIStr("A"),
                                          !.NewColumns = <<ColumnDef("d", <<>>)>>],
    \* CHANGE COLUMN c b INT
    [Spec0(AlterTableChangeColumn) EXCEPT !.OldColumnName = NewCIStr("c"),
                                          !.NewColumns = <<ColumnDef("b", <<>>)>>],
    \* MODIFY COLUMN b INT NOT NULL
    [Spec0(AlterTableModifyColumn) EXCEPT
        !.NewColumns = <<ColumnDef("b", <<NotNullOpt>>)>>],
    \* ALTER COLUMN b DROP DEFAULT
    [Spec0(AlterTableAlterColumn) EXCEPT !.NewColumns = <<ColumnDef("b", <<>>)>>],
    \* ALTER COLUMN b SET DEFAULT 2
    [Spec0(AlterTableAlterColumn) EXCEPT
        !.NewColumns = <<ColumnDef("b", <<DefaultOpt("2")>>)>>],
    \* ADD COLUMN d INT
    [Spec0(AlterTableAddColumns) EXCEPT !.NewColumns = <<ColumnDef("d", <<>>)>>],
    \* ADD COLUMN (e INT PRIMARY KEY, D INT)
    [Spec0(AlterTableAddColumns) EXCEPT
        !.NewColumns = <<ColumnDef("e", <<PkOpt>>), ColumnDef("D", <<>>)>>],
    \* DROP PRIMARY KEY
    Spec0(AlterTableDropPrimaryKey),
    \* DROP INDEX u1
    [Spec0(AlterTableDropIndex) EXCEPT !.Name = "u1"],
    \* RENAME INDEX u1 TO k1
    [Spec0(AlterTableRenameIndex) EXCEPT !.FromKey = NewCIStr("u1"),
                                         !.ToKey = NewCIStr("k1")],
    \* ADD PRIMARY KEY (a)
    [Spec0(AlterTableAddConstraint) EXCEPT
        !.Constraint = Constraint(ConstraintPrimaryKey, "")],
    \* ADD UNIQUE k1 (a)
    [Spec0(AlterTableAddConstraint) EXCEPT
        !.Constraint = Constraint(ConstraintUniq, "k1")] }

\* the ALTER TABLE statements of a run: one to MaxSpecs specifications
AlterTables == UNION {[1..n -> AlterSpecs] : n \in 1..MaxSpecs}

NoView == [Table |-> "", Cols |-> <<>>, Constraints |-> <<>>]

\* before the first merge
NoCall == [alter |-> <<>>, pre |-> ParseCreateTableStmt("", <<>>, <<>>),
           oldAfter |-> NoView, ret |-> NoView, st |-> "none"]

Init ==
  /\ catalog \in CreateTables
  /\ last = NoCall
  /\ nMerges = 0

\* The catalog folds one ALTER TABLE into the table's current CREATE:
\* the table mergeAlterToTable returns becomes the catalog's table (after a
\* panic the catalog still holds oldTable). last records the call: the
\* ALTER, the catalog entry before the call, the input as a reader still
\* holding it reads it after the call, the returned table, and how the call
\* ended.
Merge(alterTable) ==
  /\ nMerges < MaxMerges
  /\ last.st # "panic"
  /\ LET m == mergeAlterToTable(catalog.h, catalog.t, alterTable)
         returned == IF m.st = "run" THEN m.nt ELSE catalog.t
     IN /\ catalog' = Reachable(m.h, returned)
        /\ last' = [alter |-> alterTable,
                    pre |-> catalog,
                    oldAfter |-> View(m.h, catalog.t),
                    ret |-> View(m.h, returned),
                    st |-> m.st]
  /\ nMerges' = nMerges + 1
  /\ UNCHANGED notMerge

Next == \E alterTable \in AlterTables : Merge(alterTable)

(* ======================= properties of the merge ======================= *)

\* the input CREATE of the last call as it read before the call
Before == View(last.pre.h, last.pre.t)

\* the last call returned (did not panic)
Returned == last.st \in {"run", "orig"}

\* the types of the specs of the last ALTER
AlterTypes == {last.alter[i].Tp : i \in 1..Len(last.alter)}

\* C1: merge atomicity. Whenever mergeAlterToTable takes a return-original
\* branch, the table it returns reads exactly as the input CREATE read before
\* the call (name, column list with options, constraint list), also when
\* earlier specs of the same ALTER had already been folded.
C1_MergeAtomicity == last.st = "orig" => last.ret = Before

\* C2: copy-on-fold. After any call of mergeAlterToTable the input CREATE,
\* read by someone who still holds it, has the column list, the per-column
\* options, the constraint list and the constraint names it had before the
\* call.
C2_CopyOnFold == last.st # "none" => last.oldAfter = Before

\* the table a finished fold m of the catalog entry pre hands back
ResultView(pre, m) == View(m.h, IF m.st = "run" THEN m.nt ELSE pre.t)

\* the specs folded one after another in the order given
FoldInOrder(pre, specs) ==
  FoldSpecs([h |-> pre.h, nt |-> pre.t, st |-> "run"], specs, 1)

OfType(specs, tp) == SelectSeq(specs, LAMBDA spec : spec.Tp = tp)

\* the specs of an ALTER sorted by alter type (rename, drop column, change,
\* modify, alter column, add columns, drop primary key, drop index, rename
\* index, add constraint), statement order kept within a type
GroupedByType(specs) ==
  OfType(specs, AlterTableRenameTable) \o OfType(specs, AlterTableDropColumn)
  \o OfType(specs, AlterTableChangeColumn) \o OfType(specs, AlterTableModifyColumn)
  \o OfType(specs, AlterTableAlterColumn) \o OfType(specs, AlterTableAddColumns)
  \o OfType(specs, AlterTableDropPrimaryKey) \o OfType(specs, AlterTableDropIndex)
  \o OfType(specs, AlterTableRenameIndex) \o OfType(specs, AlterTableAddConstraint)

\* the last call ended as the fold m does and returned what m returns
SameAsFold(m) == last.st = m.st /\ last.ret = ResultView(last.pre, m)

\* C3 (as claimed): the result of mergeAlterToTable equals folding the specs
\* s1, ..., sn one after another in the order they appear in the ALTER
\* statement (stated for the ALTERs whose specs all fold when taken in
\* statement order, so that no return-original branch is involved).
C3_SpecsInStatementOrder ==
  (last.st # "none" /\ FoldInOrder(last.pre, last.alter).st = "run")
     => SameAsFold(FoldInOrder(last.pre, last.alter))

\* C3 (amended): the result of mergeAlterToTable equals folding the specs
\* sorted by alter type in the fixed order rename table, drop column, change
\* column, modify column, alter column, add columns, drop primary key, drop
\* index, rename index, add constraint; statement order decides only among
\* specs of the same type.
C3_SpecsGroupedByType ==
  last.st # "none" => SameAsFold(FoldInOrder(last.pre, GroupedByType(last.alter)))

\* C3 witness: ALTER TABLE t ADD COLUMN ..., CHANGE COLUMN ... was merged and
\* its result is not the one folding in statement order gives
C3_Witness ==
  /\ Len(last.alter) = 2
  /\ last.alter[1].Tp = AlterTableAddColumns
  /\ last.alter[2].Tp = AlterTableChangeColumn
  /\ ~SameAsFold(FoldInOrder(last.pre, last.alter))

\* the last ALTER has exactly one spec, of type tp
OneSpec(tp) == Len(last.alter) = 1 /\ last.alter[1].Tp = tp

\* no two columns have the same name, case-insensitively
UniqueColNames(cols) ==
  \A i, j \in 1..Len(cols) : i # j => cols[i].Name.L # cols[j].Name.L

HasCol(cols, l) == \E i \in 1..Len(cols) : cols[i].Name.L = l

\* the call folded the ALTER and returned a table reading as v
Folded(v) == last.st = "run" /\ last.ret = v

\* the call returned the original CREATE, reading as before the call
Original == last.st = "orig" /\ last.ret = Before

\* C4: DropColumn. Merging an ALTER whose only spec is DROP COLUMN x into a
\* CREATE (column names pairwise distinct) that has a column named x
\* case-insensitively returns a table whose columns are the input columns
\* without x in the same relative order, name and constraints kept; if no
\* column matches x the original CREATE is returned.
C4_DropColumn ==
  (OneSpec(AlterTableDropColumn) /\ UniqueColNames(Before.Cols)) =>
     LET x == last.alter[1].OldColumnName.L
     IN IF HasCol(Before.Cols, x)
        THEN Folded([Before EXCEPT
                       !.Cols = SelectSeq(@, LAMBDA c : c.Name.L # x)])
        ELSE Original

\* C4 witness: DROP COLUMN b removed the column B from the middle of t
C4_Witness ==
  /\ OneSpec(AlterTableDropColumn)
  /\ Len(Before.Cols) = 3 /\ Before.Cols[2].Name.O = "B"
  /\ last.st = "run"
  /\ last.ret.Cols = <<Before.Cols[1], Before.Cols[3]>>

\* the new columns of the ADD COLUMN specs of an ALTER, in spec order
RECURSIVE AddedCols(_)
AddedCols(specs) ==
  IF specs = <<>> THEN <<>>
  ELSE (IF Head(specs).Tp = AlterTableAddColumns
        THEN Head(specs).NewColumns ELSE <<>>) \o AddedCols(Tail(specs))

NamesOf(cols) == [i \in 1..Len(cols) |-> cols[i].Name.L]

\* t is the tail of s
IsTail(t, s) ==
  Len(t) <= Len(s) /\ SubSeq(s, Len(s) - Len(t) + 1, Len(s)) = t

\* C5, first part: the new columns of the ADD COLUMN specs are appended at the
\* end of the column list in spec order, and an ALTER made of ADD COLUMN
\* specs returns the original CREATE exactly when a column to add has the
\* name (case-insensitive) of a column already present or added earlier by
\* the same ALTER
C5_Append ==
  /\ last.st = "run" =>
       IsTail(NamesOf(AddedCols(last.alter)), NamesOf(last.ret.Cols))
  /\ (AlterTypes = {AlterTableAddColumns} /\ UniqueColNames(Before.Cols)) =>
       IF UniqueColNames(Before.Cols \o AddedCols(last.alter))
       THEN Folded([Before EXCEPT !.Cols = @ \o AddedCols(last.alter)])
       ELSE Original

\* C5 (as claimed): AddColumns appends in spec order and returns the original
\* on a duplicate name, so a merged table never contains two columns with the
\* same name if the input had none.
C5_AddColumns ==
  /\ C5_Append
  /\ (Returned /\ UniqueColNames(Before.Cols)) => UniqueColNames(last.ret.Cols)

\* C5 (amended): AddColumns appends in spec order and returns the original on
\* a duplicate name, so the table merged from an ALTER made only of ADD COLUMN
\* specs never contains two columns with the same name if the input had none
\* (CHANGE COLUMN and MODIFY COLUMN do not check the new name).
C5_AddColumnsOnly ==
  /\ C5_Append
  /\ (Returned /\ AlterTypes = {AlterTableAddColumns}
        /\ UniqueColNames(Before.Cols)) => UniqueColNames(last.ret.Cols)

\* C5 witness: ADD COLUMN d, ADD COLUMN (e, D) returned the original because
\* D repeats the d the same ALTER had added
C5_Witness ==
  /\ Len(last.alter) = 2 /\ AlterTypes = {AlterTableAddColumns}
  /\ Len(last.alter[1].NewColumns) = 1 /\ Len(last.alter[2].NewColumns) = 2
  /\ UniqueColNames(Before.Cols)
  /\ ~HasCol(Before.Cols, "d") /\ ~HasCol(Before.Cols, "e")
  /\ Original

\* C6: ChangeColumn and ModifyColumn replace in place. In a CREATE with
\* pairwise distinct column names, CHANGE old new puts the new definition at
\* the position of the column named old, MODIFY col at the position of the
\* column of that name; the number of columns, every other column, the name
\* and the constraints are unchanged; when the named column is missing the
\* original CREATE is returned.
C6_ChangeModify ==
  ((OneSpec(AlterTableChangeColumn) \/ OneSpec(AlterTableModifyColumn))
     /\ UniqueColNames(Before.Cols)) =>
     LET spec == last.alter[1]
         new == spec.NewColumns[1]
         old == IF spec.Tp = AlterTableChangeColumn
                THEN spec.OldColumnName.L ELSE new.Name.L
     IN IF HasCol(Before.Cols, old)
        THEN Folded([Before EXCEPT
                       !.Cols = [i \in 1..Len(@) |->
                                   IF @[i].Name.L = old THEN new ELSE @[i]]])
        ELSE Original

\* C6 witness: MODIFY COLUMN b INT NOT NULL replaced the second column B
C6_Witness ==
  /\ OneSpec(AlterTableModifyColumn)
  /\ Len(Before.Cols) = 3 /\ Before.Cols[2].Name.O = "B"
  /\ last.st = "run"
  /\ last.ret.Cols = [Before.Cols EXCEPT ![2] = last.alter[1].NewColumns[1]]

IsPkCon(c) == c.Tp = ConstraintPrimaryKey

IsPkOpt(op) == op.Tp = ColumnOptionPrimaryKey

IsDefaultOpt(op) == op.Tp = ColumnOptionDefaultValue

\* how many elements of s satisfy Test
Count(s, Test(_)) == Cardinality({i \in 1..Len(s) : Test(s[i])})

\* the primary keys a table declares: PRIMARY KEY constraints and PRIMARY KEY
\* column options
PkCount(v) ==
  Count(v.Constraints, IsPkCon)
  + Cardinality(UNION {{<<i, j>> : j \in {k \in 1..Len(v.Cols[i].Options) :
                                           IsPkOpt(v.Cols[i].Options[k])}} :
                       i \in 1..Len(v.Cols)})

\* no constraint is listed twice under a name
UniqueConNames(cons) ==
  \A i, j \in 1..Len(cons) : i # j => cons[i].Name # cons[j].Name

\* C7: DropPrimaryKey. Merging DROP PRIMARY KEY into a CREATE with one
\* primary key (a table constraint or a column option) returns a table with no
\* PRIMARY KEY constraint and no PRIMARY KEY column option, every other
\* constraint and option kept in place; when the table has no primary key the
\* original CREATE is returned.
C7_DropPrimaryKey ==
  (OneSpec(AlterTableDropPrimaryKey) /\ PkCount(Before) <= 1) =>
     IF PkCount(Before) = 1
     THEN /\ Folded([Before EXCEPT
                       !.Constraints = SelectSeq(@, LAMBDA c : ~IsPkCon(c)),
                       !.Cols = [i \in 1..Len(@) |->
                                   [@[i] EXCEPT !.Options =
                                      SelectSeq(@, LAMBDA op : ~IsPkOpt(op))]]])
          /\ PkCount(last.ret) = 0
     ELSE Original

\* C7 witness: DROP PRIMARY KEY took the PRIMARY KEY option off a column of a
\* table that has other constraints
C7_Witness ==
  /\ OneSpec(AlterTableDropPrimaryKey)
  /\ Count(Before.Constraints, IsPkCon) = 0 /\ PkCount(Before) = 1
  /\ Len(Before.Constraints) = 2
  /\ last.st = "run" /\ PkCount(last.ret) = 0

\* C8, first part: an ALTER whose only spec is ADD CONSTRAINT returns the
\* original CREATE when the constraint is a PRIMARY KEY and the table has a
\* primary key (constraint or column option), or when it is another
\* constraint and an existing constraint has its name; otherwise it appends
\* the constraint
C8_Add ==
  OneSpec(AlterTableAddConstraint) =>
     LET con == last.alter[1].Constraint
         refused == IF IsPkCon(con) THEN PkCount(Before) > 0
                    ELSE \E i \in 1..Len(Before.Constraints) :
                            Before.Constraints[i].Name = con.Name
     IN IF refused THEN Original
        ELSE Folded([Before EXCEPT !.Constraints = Append(@, con)])

\* C8 (as claimed): ADD CONSTRAINT refuses a second primary key and a
\* duplicate name, so after any sequence of merges a table has at most one
\* primary key (and no two constraints added by merges share a name).
C8_AddConstraint ==
  /\ C8_Add
  /\ PkCount(View(catalog.h, catalog.t)) <= 1

\* C8 (amended): ADD CONSTRAINT refuses a second primary key and a duplicate
\* name, so an ALTER made only of ADD CONSTRAINT specs leaves a table that had
\* at most one primary key with at most one, and adds no constraint other
\* than a PRIMARY KEY under a name already in use (ADD, CHANGE and MODIFY
\* COLUMN with a PRIMARY KEY option are not checked, RENAME INDEX does not
\* check the new name).
C8_AddConstraintOnly ==
  /\ C8_Add
  /\ (Returned /\ AlterTypes = {AlterTableAddConstraint}) =>
       /\ PkCount(Before) <= 1 => PkCount(last.ret) <= 1
       /\ \A i, j \in 1..Len(last.ret.Constraints) :
            (i < j /\ j > Len(Before.Constraints)
               /\ ~IsPkCon(last.ret.Constraints[j]))
            => last.ret.Constraints[i].Name # last.ret.Constraints[j].Name

\* C8 witness: ADD PRIMARY KEY on a table whose column has the PRIMARY KEY
\* option returned the original
C8_Witness ==
  /\ OneSpec(AlterTableAddConstraint)
  /\ IsPkCon(last.alter[1].Constraint)
  /\ Count(Before.Constraints, IsPkCon) = 0 /\ PkCount(Before) = 1
  /\ Original

\* C9: DropIndex and RenameIndex. In a CREATE whose constraint names are
\* pairwise distinct, DROP INDEX n removes the constraint named n and leaves
\* every other constraint in place and in order; RENAME INDEX a TO b changes
\* only the name of the constraint named a; columns and table name are kept;
\* when no constraint has the given name the original CREATE is returned.
C9_DropRenameIndex ==
  /\ (OneSpec(AlterTableDropIndex) /\ UniqueConNames(Before.Constraints)) =>
       LET n == last.alter[1].Name
       IN IF \E i \in 1..Len(Before.Constraints) : Before.Constraints[i].Name = n
          THEN Folded([Before EXCEPT
                         !.Constraints = SelectSeq(@, LAMBDA c : c.Name # n)])
          ELSE Original
  /\ (OneSpec(AlterTableRenameIndex) /\ UniqueConNames(Before.Constraints)) =>
       LET a == last.alter[1].FromKey.O
           b == last.alter[1].ToKey.O
       IN IF \E i \in 1..Len(Before.Constraints) : Before.Constraints[i].Name = a
          THEN Folded([Before EXCEPT
                         !.Constraints = [i \in 1..Len(@) |->
                            IF @[i].Name = a THEN [@[i] EXCEPT !.Name = b]
                            ELSE @[i]]])
          ELSE Original

\* C9 witness: DROP INDEX u1 removed the first of two constraints
C9_Witness ==
  /\ OneSpec(AlterTableDropIndex)
  /\ Len(Before.Constraints) = 2 /\ Before.Constraints[1].Name = "u1"
  /\ last.st = "run"
  /\ last.ret.Constraints = <<Before.Constraints[2]>>

\* C10: AlterColumn default-value ops. In a CREATE with pairwise distinct
\* column names and at most one default per column, ALTER COLUMN c DROP
\* DEFAULT leaves c without default-value option, ALTER COLUMN c SET DEFAULT
\* v leaves c with exactly one default-value option, v, put where the old
\* default was or appended if there was none; the other options of c, the
\* other columns, the name and the constraints are unchanged; when c is
\* missing the original CREATE is returned.
C10_AlterColumn ==
  (/\ OneSpec(AlterTableAlterColumn)
   /\ UniqueColNames(Before.Cols)
   /\ \A i \in 1..Len(Before.Cols) : Count(Before.Cols[i].Options, IsDefaultOpt) <= 1)
  =>
     LET newCol == last.alter[1].NewColumns[1]
         c == newCol.Name.L
         Upd(Options) ==
           IF newCol.Options = <<>>
           THEN SelectSeq(Options, LAMBDA op : ~IsDefaultOpt(op))
           ELSE IF Count(Options, IsDefaultOpt) = 1
                THEN [k \in 1..Len(Options) |->
                        IF IsDefaultOpt(Options[k]) THEN newCol.Options[1]
                        ELSE Options[k]]
                ELSE Append(Options, newCol.Options[1])
     IN IF HasCol(Before.Cols, c)
        THEN /\ Folded([Before EXCEPT
                          !.Cols = [i \in 1..Len(@) |->
                                      IF @[i].Name.L = c
                                      THEN [@[i] EXCEPT !.Options = Upd(@)]
                                      ELSE @[i]]])
             /\ \A i \in 1..Len(last.ret.Cols) :
                  last.ret.Cols[i].Name.L = c =>
                    Count(last.ret.Cols[i].Options, IsDefaultOpt) =
                      (IF newCol.Options = <<>> THEN 0 ELSE 1)
        ELSE Original

\* C10 witness: ALTER COLUMN b SET DEFAULT 2 replaced the default 1 of B,
\* which stands behind a NOT NULL option
C10_Witness ==
  /\ OneSpec(AlterTableAlterColumn)
  /\ last.alter[1].NewColumns[1].Options = <<DefaultOpt("2")>>
  /\ Len(Before.Cols) = 3
  /\ Before.Cols[2].Options = <<NotNullOpt, DefaultOpt("1")>>
  /\ last.st = "run"
  /\ last.ret.Cols[2].Options = <<NotNullOpt, DefaultOpt("2")>>

(* ===================== part 2: the TableChecker ======================== *)

\* the schema and table names tables are added under, and the column
\* lists of the tables added
SchemaNames == {"s1", "s2"}
TableNames == {"t", "u"}
ColumnLists == {<<"a">>, <<"b">>, <<"a", "B">>}

\* the CreateTableStmt of a table with the given column names, by value
TableOf(table, names) ==
  [Table |-> table,
   Cols |-> [i \in 1..Len(names) |-> ColumnDef(names[i], <<>>)],
   Constraints |-> <<>>]

\* ast.ColumnName: schema.table.col, table.col (no schema) or col (neither)
ColumnName(schema, table, name) ==
  [Schema |-> NewCIStr(schema), Table |-> NewCIStr(table),
   Name |-> NewCIStr(name)]

\* the column references looked up
ColumnNames ==
  {ColumnName(s, t, c) : s \in SchemaNames, t \in TableNames, c \in {"a", "b"}}
  \cup {ColumnName("", t, c) : t \in TableNames \cup {""}, c \in {"a", "b"}}

\* the orders a range over a map with the keys S may take
Perms(S) == {o \in [1..Cardinality(S) -> S] : Range(o) = S}

\* the keys of o that the map m holds, in the order o
RECURSIVE KeysIn(_, _)
KeysIn(o, m) ==
  IF o = <<>> THEN <<>>
  ELSE IF Head(o) \in DOMAIN m THEN <<Head(o)>> \o KeysIn(Tail(o), m)
       ELSE KeysIn(Tail(o), m)

\* TableChecker.add
add(st, schemaName, tableName, table) ==
  IF schemaName \in DOMAIN st
  THEN [st EXCEPT ![schemaName] = (tableName :> table) @@ @]
  ELSE (schemaName :> (tableName :> table)) @@ st

\* tableExistCol
tableExistCol(table, colName) ==
  \E i \in 1..Len(table.Cols) : table.Cols[i].Name.O = colName

\* mutant of Hit: every hit is taken for a second one
HitAlwaysAmbiguous(acc, exist) ==
  IF exist THEN [colExists |-> TRUE, colIsAmbiguous |-> TRUE] ELSE acc

\* the body of "if exist { ... }" in both loops of checkColumnByName
Hit(acc, exist) ==
  IF exist
  THEN [colExists |-> TRUE,
        colIsAmbiguous |-> acc.colIsAmbiguous \/ acc.colExists]
  ELSE acc

\* the inner loop "for _, table := range tables", from its j-th table on
RECURSIVE ScanTables(_, _, _, _, _)
ScanTables(acc, tables, keys, j, colName) ==
  IF j > Len(keys) THEN acc
  ELSE ScanTables(Hit(acc, tableExistCol(tables[keys[j]], colName)),
                  tables, keys, j + 1, colName)

\* the outer loop "for _, tables := range t.schemaTables", from its i-th
\* schema on; order and torder are the orders the two ranges take
RECURSIVE ScanSchemas(_, _, _, _, _, _, _)
ScanSchemas(acc, st, order, torder, i, tableName, colName) ==
  IF i > Len(order) THEN acc
  ELSE LET tables == st[order[i]]
           named == IF tableName \in DOMAIN tables
                    THEN Hit(acc, tableExistCol(tables[tableName], colName))
                    ELSE acc
           after == IF tableName # "" THEN named
                    ELSE ScanTables(named, tables, KeysIn(torder, tables), 1,
                                    colName)
       IN ScanSchemas(after, st, order, torder, i + 1, tableName, colName)

\* TableChecker.checkColumnByName: <<exists, ambiguous>>
checkColumnByName(st, colNameStmt, order, torder) ==
  LET schemaName == colNameStmt.Schema.O
      tableName == colNameStmt.Table.O
      colName == colNameStmt.Name.O
  IN IF schemaName \in DOMAIN st /\ tableName \in DOMAIN st[schemaName]
     THEN <<tableExistCol(st[schemaName][tableName], colName), FALSE>>
     ELSE IF schemaName # "" THEN <<FALSE, FALSE>>
     ELSE LET acc == ScanSchemas([colExists |-> FALSE, colIsAmbiguous |-> FALSE],
                                 st, order, torder, 1, tableName, colName)
          IN <<acc.colExists, acc.colIsAmbiguous>>

\* before the first lookup, and after the catalog changed
NoLookup == [ref |-> ColumnName("", "", ""), exists |-> FALSE,
             ambiguous |-> FALSE, st |-> "none"]

\* newTableChecker
CheckerInit ==
  /\ schemaTables = <<>>
  /\ lookup = NoLookup

\* a table is added to the catalog (or replaces the one of its name)
Add(schemaName, tableName, names) ==
  /\ schemaTables' = add(schemaTables, schemaName, tableName,
                         TableOf(tableName, names))
  /\ lookup' = NoLookup
  /\ UNCHANGED notChecker

\* a column reference is looked up in the catalog as it is
CheckColumn(colNameStmt, order, torder) ==
  /\ LET r == checkColumnByName(schemaTables, colNameStmt, order, torder)
     IN lookup' = [ref |-> colNameStmt, exists |-> r[1], ambiguous |-> r[2],
                   st |-> "done"]
  /\ UNCHANGED <<schemaTables, notChecker>>

CheckerNext ==
  \/ \E s \in SchemaNames, t \in TableNames, names \in ColumnLists :
       Add(s, t, names)
  \/ \E ref \in ColumnNames, order \in Perms(DOMAIN schemaTables),
        torder \in Perms(TableNames) :
       CheckColumn(ref, order, torder)

(* ------------------- properties of the TableChecker -------------------- *)

\* the catalog tables <<schema, table>> in which the looked-up reference
\* resolves: the table of its name (any table for a bare column) that has
\* a column of its name
Resolving ==
  {p \in UNION {{<<s, t>> : t \in DOMAIN schemaTables[s]} :
                s \in DOMAIN schemaTables} :
     /\ lookup.ref.Table.O \in {"", p[2]}
     /\ lookup.ref.Name.O \in
          {schemaTables[p[1]][p[2]].Cols[i].Name.O :
             i \in 1..Len(schemaTables[p[1]][p[2]].Cols)}}

\* C11: a schema-qualified reference is looked up in that schema and table
\* only: it exists iff that table is in the catalog and has the column, and
\* it is never ambiguous. A reference without schema exists iff it resolves
\* in some catalog table and is ambiguous iff it resolves in more than one
\* (the named table in more than one schema; for a bare column, more than
\* one table of any schema). Column names are compared as written.
C11_ColumnAmbiguity ==
  lookup.st = "done" =>
    IF lookup.ref.Schema.O # ""
    THEN /\ lookup.exists = (<<lookup.ref.Schema.O, lookup.ref.Table.O>>
                               \in Resolving)
         /\ ~lookup.ambiguous
    ELSE /\ lookup.exists = (Resolving # {})
         /\ lookup.ambiguous = (Cardinality(Resolving) > 1)

\* table.col resolves in two schemas and is reported ambiguous
C11_Witness ==
  /\ lookup.st = "done"
  /\ lookup.ref.Schema.O = ""
  /\ lookup.ref.Table.O = "t"
  /\ Cardinality(Resolving) = 2
  /\ lookup.exists
  /\ lookup.ambiguous

(* ======================= part 3: the Inspector ========================= *)

\* most unique-key candidates of a table
MaxKeys == 2

\* strings.ToUpper over the values of @@binlog_row_image
ToUpper(s) ==
  CASE s = "full" -> "FULL"
    [] s = "minimal" -> "MINIMAL"
    [] OTHER -> s

\* A row of SHOW GRANTS, by the privilege words strings.Contains finds in
\* it and the object it is granted on.
GrantRow(words, on) == [words |-> words, on |-> on]

\* the rows SHOW GRANTS FOR CURRENT_USER() is made of
GrantRows ==
  {GrantRow({"GRANT ALL PRIVILEGES ON"}, "*.*"),
   GrantRow({"SUPER"}, "*.*"),
   GrantRow({"REPLICATION CLIENT"}, "*.*"),
   GrantRow({"REPLICATION SLAVE"}, "*.*"),
   GrantRow({"SELECT"}, "*.*"),
   GrantRow({"SELECT"}, "db1.*")}

\* the answer to SHOW GRANTS: its rows, or err when the query fails
Grants(err, rows) == [err |-> err, rows |-> rows]

\* the answer to "select @@log_bin, @@binlog_format"
Binlogs(err, hasBinaryLogs, binlogFormat) ==
  [err |-> err, hasBinaryLogs |-> hasBinaryLogs, binlogFormat |-> binlogFormat]

\* What the source answers to the queries of InitDBConnections; "error"
\* and err stand for a query that fails, "unread" for one never sent.
Sources ==
  [createDB : {"nil", "error"},
   grants : {Grants(FALSE, rows) : rows \in SUBSET GrantRows}
            \cup {Grants(TRUE, {})},
   gtidMode : {"ON", "OFF", "error"},
   binlogs : {Binlogs(FALSE, TRUE, "ROW"), Binlogs(FALSE, TRUE, "MIXED"),
              Binlogs(FALSE, FALSE, "ROW"), Binlogs(TRUE, FALSE, "")},
   rowImage : {"FULL", "full", "minimal", "error"}]

\* The errors are named as the specification names them:
\* InsufficientPrivileges, GtidDisabled, BadBinlogConfig (binary logs off,
\* or binlog_format not ROW); "error" is the error of a failed query.

\* Inspector.validateGrants: the error it returns
validateGrants(SkipPrivilegeCheck, grants) ==
  IF SkipPrivilegeCheck THEN "nil"
  ELSE IF grants.err THEN "error"
  ELSE LET found(word) == \E g \in grants.rows : word \in g.words
           foundAll == found("GRANT ALL PRIVILEGES ON")
           foundSuper == found("SUPER")
           foundReplicationClient == found("REPLICATION CLIENT")
           foundReplicationSlave == found("REPLICATION SLAVE")
           foundDBAll == found("SELECT")
       IN IF foundAll THEN "nil"
          ELSE IF foundSuper /\ foundReplicationSlave /\ foundDBAll THEN "nil"
          ELSE IF foundReplicationClient /\ foundReplicationSlave /\ foundDBAll
               THEN "nil"
          ELSE "InsufficientPrivileges"

\* Inspector.validateGTIDMode: the error it returns
validateGTIDMode(gtidMode) ==
  IF gtidMode = "error" THEN "error"
  ELSE IF gtidMode # "ON" THEN "GtidDisabled"
  ELSE "nil"

\* mutant of validateBinlogs: the row image is read before the checks
validateBinlogsImageFirst(BinlogRowImage, binlogs, rowImage) ==
  LET image == ToUpper(IF rowImage = "error" THEN "FULL" ELSE rowImage)
  IN IF binlogs.err THEN [err |-> "error", BinlogRowImage |-> image]
     ELSE IF ~binlogs.hasBinaryLogs
     THEN [err |-> "BadBinlogConfig", BinlogRowImage |-> image]
     ELSE IF binlogs.binlogFormat # "ROW"
     THEN [err |-> "BadBinlogConfig", BinlogRowImage |-> image]
     ELSE [err |-> "nil", BinlogRowImage |-> image]

\* Inspector.validateBinlogs: the error it returns and
\* mysqlContext.BinlogRowImage as it leaves it
validateBinlogs(BinlogRowImage, binlogs, rowImage) ==
  IF binlogs.err
  THEN [err |-> "error", BinlogRowImage |-> BinlogRowImage]
  ELSE IF ~binlogs.hasBinaryLogs
  THEN [err |-> "BadBinlogConfig", BinlogRowImage |-> BinlogRowImage]
  ELSE IF binlogs.binlogFormat # "ROW"
  THEN [err |-> "BadBinlogConfig", BinlogRowImage |-> BinlogRowImage]
  ELSE [err |-> "nil",
        BinlogRowImage |-> ToUpper(IF rowImage = "error" THEN "FULL"
                                   ELSE rowImage)]

\* the source as far as a run of InitDBConnections that stops at the given
\* step read it
ReadUpTo(src, step, SkipPrivilegeCheck) ==
  [createDB |-> src.createDB,
   grants |-> IF step >= 1 /\ ~SkipPrivilegeCheck THEN src.grants
              ELSE Grants(FALSE, {}),
   gtidMode |-> IF step >= 2 THEN src.gtidMode ELSE "unread",
   binlogs |-> IF step >= 3 THEN src.binlogs ELSE Binlogs(FALSE, FALSE, "unread"),
   rowImage |-> IF step >= 4 THEN src.rowImage ELSE "unread"]

\* Inspector.InitDBConnections on the Inspector i: the Inspector as the call
\* leaves it, the error returned, and what the call read of the source
InitDBConnections(i, src) ==
  IF src.createDB # "nil"
  THEN [i |-> [i EXCEPT !.db = "nil"], err |-> src.createDB,
        read |-> ReadUpTo(src, 0, i.SkipPrivilegeCheck)]
  ELSE LET open == [i EXCEPT !.db = "open"]
           g == validateGrants(i.SkipPrivilegeCheck, src.grants)
           m == validateGTIDMode(src.gtidMode)
           b == validateBinlogs(i.BinlogRowImage, src.binlogs, src.rowImage)
       IN IF g # "nil"
          THEN [i |-> open, err |-> g, read |-> ReadUpTo(src, 1, i.SkipPrivilegeCheck)]
          ELSE IF m # "nil"
          THEN [i |-> open, err |-> m, read |-> ReadUpTo(src, 2, i.SkipPrivilegeCheck)]
          ELSE [i |-> [open EXCEPT !.BinlogRowImage = b.BinlogRowImage],
                err |-> b.err,
                read |-> ReadUpTo(src, IF b.err = "nil" THEN 4 ELSE 3,
                                 i.SkipPrivilegeCheck)]

\* common.UniqueKey as getCandidateUniqueKeys builds it and ApplyColumnTypes
\* completes it: index name, the types of its columns, has_nullable
UniqueKey(name, types, hasNullable) ==
  [Name |-> name, Columns |-> types, HasNullable |-> hasNullable]

\* table.UseUniqueKey == nil
NoKey == UniqueKey("", <<>>, FALSE)

\* the unique indexes a source table may have
UniqueKeys ==
  {UniqueKey("PRIMARY", <<"int">>, FALSE),
   UniqueKey("PRIMARY", <<"int", "float">>, FALSE),
   UniqueKey("a", <<"float">>, FALSE),
   UniqueKey("b", <<"int", "int">>, FALSE),
   UniqueKey("c", <<"int">>, TRUE),
   UniqueKey("d", <<"int">>, FALSE),
   UniqueKey("j", <<"json">>, FALSE)}

\* What the source answers to the queries of ValidateOriginalTable: the
\* table status ("table", "VIEW", "missing"), whether reading candidates or
\* columns fails, the candidates in discovery order (one per index name),
\* and whether the row filter parses against the columns.
TableSource(status, readErr, uniqueKeys, whereErr) ==
  [status |-> status, readErr |-> readErr, uniqueKeys |-> uniqueKeys,
   whereErr |-> whereErr]

TableSources ==
  {TableSource("VIEW", FALSE, <<>>, FALSE),
   TableSource("missing", FALSE, <<>>, FALSE),
   TableSource("table", TRUE, <<>>, FALSE)}
  \cup {TableSource("table", FALSE, uks, whereErr) :
          uks \in {u \in UNION {[1..n -> UniqueKeys] : n \in 0..MaxKeys} :
                     \A x, y \in 1..Len(u) : u[x].Name = u[y].Name => x = y},
          whereErr \in BOOLEAN}

\* UniqueKey.IsPrimary
IsPrimary(uk) == uk.Name = "PRIMARY"

\* mutant of uniqueKeyIsValid: a nullable key passes
uniqueKeyIsValidNullable(uk, BinlogRowImage) ==
  /\ \A c \in 1..Len(uk.Columns) : uk.Columns[c] \notin {"float", "json"}
  /\ IsPrimary(uk) \/ "FULL" = BinlogRowImage

\* uniqueKeyIsValid at the end of the loop body of ValidateOriginalTable
uniqueKeyIsValid(uk, BinlogRowImage) ==
  /\ \A c \in 1..Len(uk.Columns) : uk.Columns[c] \notin {"float", "json"}
  /\ ~uk.HasNullable
  /\ ~(~IsPrimary(uk) /\ "FULL" # BinlogRowImage)

\* mutant of UseKey: the first valid key is kept, PRIMARY or not
UseKeyFirstValid(UseUniqueKey, uk) ==
  [key |-> IF UseUniqueKey = NoKey THEN uk ELSE UseUniqueKey, break |-> FALSE]

\* mutant of UseKey: a valid key replaces the one chosen before
UseKeyLastValid(UseUniqueKey, uk) ==
  [key |-> uk, break |-> IsPrimary(uk)]

\* "Use the first key or PK (if valid)": table.UseUniqueKey after a valid
\* candidate uk, and whether the loop breaks
UseKey(UseUniqueKey, uk) ==
  IF IsPrimary(uk) THEN [key |-> uk, break |-> TRUE]
  ELSE IF UseUniqueKey = NoKey THEN [key |-> uk, break |-> FALSE]
  ELSE [key |-> UseUniqueKey, break |-> FALSE]

\* the loop "for _, uk := range uniqueKeys", from its k-th candidate on
RECURSIVE ChooseKey(_, _, _, _)
ChooseKey(UseUniqueKey, uniqueKeys, k, BinlogRowImage) ==
  IF k > Len(uniqueKeys) THEN UseUniqueKey
  ELSE IF ~uniqueKeyIsValid(uniqueKeys[k], BinlogRowImage)
  THEN ChooseKey(UseUniqueKey, uniqueKeys, k + 1, BinlogRowImage)
  ELSE LET u == UseKey(UseUniqueKey, uniqueKeys[k])
       IN IF u.break THEN u.key
          ELSE ChooseKey(u.key, uniqueKeys, k + 1, BinlogRowImage)

\* Inspector.ValidateOriginalTable on the Inspector and table descriptor i:
\* both as the call leaves them, and the error returned
ValidateOriginalTable(i, src) ==
  IF src.status = "VIEW" THEN [i |-> i, err |-> "is a VIEW"]
  ELSE IF src.status # "table" THEN [i |-> i, err |-> "Cannot find table"]
  ELSE IF src.readErr THEN [i |-> i, err |-> "error"]
  ELSE [i |-> [i EXCEPT !.UseUniqueKey =
                 ChooseKey(i.UseUniqueKey, src.uniqueKeys, 1, i.BinlogRowImage)],
        err |-> IF src.whereErr THEN "Error parsing where" ELSE "nil"]

NoSource == ReadUpTo([createDB |-> "unread"], 0, TRUE)
NoTableSource == TableSource("unread", FALSE, <<>>, FALSE)

\* a call of the Inspector: the method, the error it returned, the Inspector
\* before it, what it read, and whether it is a ValidateOriginalTable that
\* follows one that found the same candidates (in any order)
Call(op, err, before, source, table, repeat) ==
  [op |-> op, err |-> err, before |-> before, source |-> source,
   table |-> table, repeat |-> repeat]

\* NewInspector, and a table descriptor with no key chosen yet
InspectorInit ==
  /\ inspector \in [db : {"nil"}, SkipPrivilegeCheck : BOOLEAN,
                    BinlogRowImage : {""}, UseUniqueKey : {NoKey}]
  /\ call = Call("none", "nil", inspector, NoSource, NoTableSource, FALSE)

\* the job connects the Inspector to the source
DoInitDBConnections(src) ==
  /\ inspector.db = "nil"
  /\ LET r == InitDBConnections(inspector, src)
     IN /\ inspector' = r.i
        /\ call' = Call("InitDBConnections", r.err, inspector, r.read,
                        NoTableSource, FALSE)
  /\ UNCHANGED notInspector

\* the job validates the table, once the Inspector is connected and as long
\* as no call failed
DoValidateOriginalTable(src) ==
  /\ inspector.db = "open"
  /\ call.op # "none"
  /\ call.err = "nil"
  /\ LET r == ValidateOriginalTable(inspector, src)
     IN /\ inspector' = r.i
        /\ call' = Call("ValidateOriginalTable", r.err, inspector, NoSource,
                        src,
                        /\ call.op = "ValidateOriginalTable"
                        /\ call.table.status = "table"
                        /\ ~call.table.readErr
                        /\ src.status = "table"
                        /\ ~src.readErr
                        /\ Range(call.table.uniqueKeys) = Range(src.uniqueKeys))
  /\ UNCHANGED notInspector

\* Inspector.Close, called by the job that owns the Inspector
Close ==
  /\ inspector.db = "open"
  /\ inspector' = [inspector EXCEPT !.db = "closed"]
  /\ call' = Call("Close", "nil", inspector, NoSource, NoTableSource, FALSE)
  /\ UNCHANGED notInspector

InspectorNext ==
  \/ \E src \in Sources : DoInitDBConnections(src)
  \/ \E src \in TableSources : DoValidateOriginalTable(src)
  \/ Close

(* --------------------- properties of the Inspector --------------------- *)

\* the last call was a ValidateOriginalTable that read the candidates
Selected ==
  /\ call.op = "ValidateOriginalTable"
  /\ call.table.status = "table"
  /\ ~call.table.readErr

\* a valid candidate: no FLOAT or JSON column, not nullable, and PRIMARY
\* or the row image FULL
ValidKey(uk) ==
  /\ ~\E c \in 1..Len(uk.Columns) : uk.Columns[c] \in {"float", "json"}
  /\ uk.HasNullable = FALSE
  /\ uk.Name = "PRIMARY" \/ inspector.BinlogRowImage = "FULL"

\* the places of the valid candidates in the discovery order of the last call
ValidAt == {k \in 1..Len(call.table.uniqueKeys) : ValidKey(call.table.uniqueKeys[k])}

\* C12: for a table with no key chosen yet, ValidateOriginalTable chooses
\* the PRIMARY candidate if it is valid, wherever it is in the discovery
\* order, and otherwise the first valid candidate in discovery order.
C12_KeySelectionRule ==
  (Selected /\ call.before.UseUniqueKey = NoKey) =>
    LET uks == call.table.uniqueKeys
    IN IF \E k \in ValidAt : uks[k].Name = "PRIMARY"
       THEN inspector.UseUniqueKey.Name = "PRIMARY"
            /\ inspector.UseUniqueKey \in Range(uks)
       ELSE IF ValidAt # {}
       THEN inspector.UseUniqueKey =
              uks[CHOOSE k \in ValidAt : \A j \in ValidAt : k <= j]
       ELSE inspector.UseUniqueKey = NoKey

\* a valid unique key is discovered before a valid PRIMARY, and PRIMARY is
\* chosen
C12_Witness ==
  /\ Selected
  /\ call.before.UseUniqueKey = NoKey
  /\ ValidAt = {1, 2}
  /\ call.table.uniqueKeys[2].Name = "PRIMARY"
  /\ inspector.UseUniqueKey = call.table.uniqueKeys[2]

\* C13: the chosen unique key of the table is absent or a valid candidate:
\* no FLOAT and no JSON column, hasNullable false, and PRIMARY or the row
\* image FULL. A candidate that fails one of these is never chosen.
C13_ChosenKeyValid ==
  /\ inspector.UseUniqueKey = NoKey \/ ValidKey(inspector.UseUniqueKey)
  /\ Selected =>
       \/ inspector.UseUniqueKey = call.before.UseUniqueKey
       \/ \E k \in ValidAt : inspector.UseUniqueKey = call.table.uniqueKeys[k]

\* t(a FLOAT UNIQUE, b INT UNIQUE) under row image FULL: a is passed over
\* and b chosen
C13_Witness ==
  /\ Selected
  /\ call.before.UseUniqueKey = NoKey
  /\ inspector.BinlogRowImage = "FULL"
  /\ Len(call.table.uniqueKeys) = 2
  /\ call.table.uniqueKeys[1] = UniqueKey("a", <<"float">>, FALSE)
  /\ inspector.UseUniqueKey = UniqueKey("b", <<"int", "int">>, FALSE)

\* C14: a table that exists, is no view, whose columns and candidates are
\* read without error and that has no valid candidate is accepted:
\* ValidateOriginalTable returns no error and the chosen key stays absent.
C14_NoValidKeyAccepted ==
  (Selected /\ call.before.UseUniqueKey = NoKey /\ ValidAt = {}) =>
    /\ call.err = "nil"
    /\ inspector.UseUniqueKey = NoKey

\* C15: a ValidateOriginalTable that follows one on the same descriptor and
\* finds the same candidates under the same row image leaves the key the
\* first run chose.
C15_KeySelectionStable ==
  call.repeat => inspector.UseUniqueKey = call.before.UseUniqueKey

\* the second run discovers the two valid candidates in the other order and
\* keeps the key of the first run
C15_Witness ==
  /\ call.repeat
  /\ ValidAt = {1, 2}
  /\ inspector.UseUniqueKey = call.table.uniqueKeys[2]
  /\ inspector.UseUniqueKey.Name # "PRIMARY"

\* C16: a row filter that fails to parse against the column list is not
\* fatal: ValidateOriginalTable returns no error.
C16_WhereNonFatal ==
  (Selected /\ call.table.whereErr) => call.err = "nil"

\* the grants hold word on *.*
GrantedOnAll(rows, word) == \E g \in rows : word \in g.words /\ g.on = "*.*"

\* C17: unless the privilege check is skipped, validateGrants succeeds
\* exactly when the grants contain ALL PRIVILEGES, or SUPER, REPLICATION
\* SLAVE and SELECT on *.*, or REPLICATION CLIENT, REPLICATION SLAVE and
\* SELECT on *.*; with the check skipped it always succeeds.
C17_PrivilegeCheck ==
  (/\ call.op = "InitDBConnections"
   /\ call.source.createDB = "nil"
   /\ ~call.source.grants.err) =>
    LET rows == call.source.grants.rows
        has(word) == \E g \in rows : word \in g.words
    IN (call.err # "InsufficientPrivileges") =
         \/ call.before.SkipPrivilegeCheck
         \/ has("GRANT ALL PRIVILEGES ON")
         \/ /\ has("SUPER") \/ has("REPLICATION CLIENT")
            /\ has("REPLICATION SLAVE")
            /\ GrantedOnAll(rows, "SELECT")

\* C18: when @@GTID_MODE is not ON, InitDBConnections fails with the
\* GTID-disabled error and leaves no DB handle open.
C18_GtidMode ==
  (/\ call.op = "InitDBConnections"
   /\ call.source.gtidMode \notin {"ON", "error", "unread"}) =>
    /\ call.err = "GtidDisabled"
    /\ inspector.db # "open"

\* C19: InitDBConnections succeeds only if binary logging is on and
\* binlog_format is ROW, and fails with the bad-binlog-config errors
\* otherwise; on success the row image is the upper-cased @@binlog_row_image,
\* or FULL when it cannot be read; the checks run in the order grants, GTID
\* mode, binlogs, a failed check stops the sequence, and the row image is
\* only published on success.
C19_BinlogConfig ==
  call.op = "InitDBConnections" =>
    LET src == call.source
    IN /\ call.err = "nil" =>
            /\ src.gtidMode = "ON"
            /\ ~src.binlogs.err /\ src.binlogs.hasBinaryLogs
            /\ src.binlogs.binlogFormat = "ROW"
            /\ inspector.BinlogRowImage =
                 (IF src.rowImage \in {"FULL", "full", "error"} THEN "FULL"
                  ELSE "MINIMAL")
       /\ (~src.binlogs.err /\ src.binlogs.binlogFormat # "unread") =>
            call.err = (IF ~src.binlogs.hasBinaryLogs
                           \/ src.binlogs.binlogFormat # "ROW"
                        THEN "BadBinlogConfig" ELSE "nil")
       /\ call.err # "nil" =>
            inspector.BinlogRowImage = call.before.BinlogRowImage
       /\ (call.err = "InsufficientPrivileges" \/ src.grants.err) =>
            src.gtidMode = "unread"
       /\ src.gtidMode \notin {"ON", "unread"} =>
            src.binlogs.binlogFormat = "unread"
       /\ src.binlogs.binlogFormat # "unread" => src.gtidMode = "ON"

\* @@binlog_row_image = 'minimal' is published as MINIMAL
C19_Witness ==
  /\ call.op = "InitDBConnections"
  /\ call.err = "nil"
  /\ call.source.rowImage = "minimal"
  /\ inspector.BinlogRowImage = "MINIMAL"

(* ============ part 4: the applier's incremental subscription =========== *)

\* most segments the bus delivers in one run
MaxSegments == 3

\* capacity of a.ai.incrBytesQueue
QueueCap == 1

\* a bus message: one segment, numbered in delivery order; its reply
\* subject is its number, final marks the last segment of a logical message
Msg(n, final) == [Reply |-> n, final |-> final]

NoMsg == Msg(0, FALSE)

\* What the callback did with a segment, written when it returns: whether
\* incrNMM.Handle failed, whether the merged message was enqueued, how many
\* times Publish(m.Reply, nil) was called, and whether shutdown was
\* signalled when it returned.
Handled(m, handleErr, enqueued, publishes, shutdown) ==
  [m |-> m, handleErr |-> handleErr, enqueued |-> enqueued,
   publishes |-> publishes, shutdown |-> shutdown]

\* ApplierOracle.Shutdown on the applier a: closes the bus connection and
\* shutdownCh, once
Shutdown(a) == IF a.shutdown THEN a ELSE [a EXCEPT !.shutdown = TRUE]

\* ApplierOracle.onError on the applier a: unless shut down already, one
\* ExitResult goes to waitCh and the applier shuts down
onError(a) ==
  IF a.shutdown THEN a ELSE Shutdown([a EXCEPT !.exits = @ + 1])

\* a.natsConn.Publish(m.Reply, nil) and the "if err != nil" after it:
\* publishing fails on a closed connection, and may fail on an open one
Publish(a, pubErr) == IF a.shutdown \/ pubErr THEN onError(a) ELSE a

\* the callback returns
Return(sub, r) ==
  [sub EXCEPT !.pc = "idle", !.m = NoMsg, !.log = Append(@, r)]

\* NewApplierOracle and subscribeNats: nothing received yet. acks holds the
\* reply subjects published to so far and queued every payload sent to
\* incrBytesQueue so far, in order.
ApplierInit ==
  /\ applier = [shutdown |-> FALSE, incrBytesQueue |-> <<>>, memory2 |-> 0,
                Stage |-> "", exits |-> 0]
  /\ subscription = [incrNMM |-> <<>>, pc |-> "idle", m |-> NoMsg,
                     delivered |-> 0, log |-> <<>>, acks |-> {},
                     queued |-> <<>>]

\* mutant of Receive: a final segment is acknowledged before the select
ReceiveAckFirst(final, handleErr, pubErr) ==
  /\ subscription.pc = "idle"
  /\ ~applier.shutdown
  /\ subscription.delivered < MaxSegments
  /\ LET m == Msg(subscription.delivered + 1, final)
         sub == [subscription EXCEPT !.delivered = m.Reply]
         merged == [sub EXCEPT !.incrNMM = Append(@, m.Reply),
                               !.acks = @ \cup {m.Reply}]
     IN IF handleErr
        THEN /\ applier' = onError(applier)
             /\ subscription' =
                  Return(sub, Handled(m, TRUE, FALSE, 0, applier.shutdown))
        ELSE IF ~final
        THEN /\ applier' = Publish(applier, pubErr)
             /\ subscription' =
                  Return(merged, Handled(m, FALSE, FALSE, 1, applier.shutdown))
        ELSE /\ subscription' = [merged EXCEPT !.pc = "select", !.m = m]
             /\ applier' = Publish(applier, pubErr)
  /\ UNCHANGED notApplier

\* The bus delivers a segment and the callback runs up to its return or to
\* the select: incrNMM.Handle appends the segment and reports whether it
\* was the final one; a segment that is not final is acknowledged at once.
\* Shutdown closes natsConn, which ends the subscription: the callback is
\* not entered again after it.
Receive(final, handleErr, pubErr) ==
  /\ subscription.pc = "idle"
  /\ ~applier.shutdown
  /\ subscription.delivered < MaxSegments
  /\ LET m == Msg(subscription.delivered + 1, final)
         sub == [subscription EXCEPT !.delivered = m.Reply]
         merged == [sub EXCEPT !.incrNMM = Append(@, m.Reply)]
     IN IF handleErr
        THEN /\ applier' = onError(applier)
             /\ subscription' =
                  Return(sub, Handled(m, TRUE, FALSE, 0, applier.shutdown))
        ELSE IF ~final
        THEN /\ applier' = Publish(applier, pubErr)
             /\ subscription' =
                  Return([merged EXCEPT !.acks = @ \cup {m.Reply}],
                         Handled(m, FALSE, FALSE, 1, applier.shutdown))
        ELSE /\ subscription' = [merged EXCEPT !.pc = "select", !.m = m]
             /\ UNCHANGED applier
  /\ UNCHANGED notApplier

\* mutant of ShutdownSelected: the segment is acknowledged all the same
ShutdownSelectedAck ==
  /\ subscription.pc = "select"
  /\ applier.shutdown
  /\ subscription' =
       Return([subscription EXCEPT !.acks = @ \cup {subscription.m.Reply}],
              Handled(subscription.m, FALSE, FALSE, 1, TRUE))
  /\ UNCHANGED <<applier, notApplier>>

\* "case <-a.shutdownCh: return"
ShutdownSelected ==
  /\ subscription.pc = "select"
  /\ applier.shutdown
  /\ subscription' = Return(subscription,
                            Handled(subscription.m, FALSE, FALSE, 0, TRUE))
  /\ UNCHANGED <<applier, notApplier>>

\* mutant of Enqueued: incrNMM.Reset() is left out
EnqueuedNoReset(pubErr) ==
  /\ subscription.pc = "select"
  /\ Len(applier.incrBytesQueue) < QueueCap
  /\ LET bs == subscription.incrNMM
         a == [applier EXCEPT !.incrBytesQueue = Append(@, bs),
                              !.memory2 = @ + Len(bs)]
     IN /\ applier' = IF a.shutdown \/ pubErr THEN Publish(a, pubErr)
                      ELSE [a EXCEPT !.Stage = "StageWaitingForMasterToSendEvent"]
        /\ subscription' =
             Return([subscription EXCEPT
                       !.queued = Append(@, bs),
                       !.acks = @ \cup {subscription.m.Reply}],
                    Handled(subscription.m, FALSE, TRUE, 1, applier.shutdown))
  /\ UNCHANGED notApplier

\* "case a.ai.incrBytesQueue <- bs": the queue has room; the merged message
\* is enqueued, the merger reset and the final segment acknowledged
Enqueued(pubErr) ==
  /\ subscription.pc = "select"
  /\ Len(applier.incrBytesQueue) < QueueCap
  /\ LET bs == subscription.incrNMM
         a == [applier EXCEPT !.incrBytesQueue = Append(@, bs),
                              !.memory2 = @ + Len(bs)]
     IN /\ applier' = IF a.shutdown \/ pubErr THEN Publish(a, pubErr)
                      ELSE [a EXCEPT !.Stage = "StageWaitingForMasterToSendEvent"]
        /\ subscription' =
             Return([subscription EXCEPT
                       !.incrNMM = <<>>,
                       !.queued = Append(@, bs),
                       !.acks = @ \cup {subscription.m.Reply}],
                    Handled(subscription.m, FALSE, TRUE, 1, applier.shutdown))
  /\ UNCHANGED notApplier

\* the incremental applier takes a message off the queue
Dequeue ==
  /\ applier.incrBytesQueue # <<>>
  /\ applier' = [applier EXCEPT !.incrBytesQueue = Tail(@)]
  /\ UNCHANGED <<subscription, notApplier>>

\* the job shuts the applier down
DoShutdown ==
  /\ ~applier.shutdown
  /\ applier' = Shutdown(applier)
  /\ UNCHANGED <<subscription, notApplier>>

ApplierNext ==
  \/ \E final, handleErr, pubErr \in BOOLEAN : Receive(final, handleErr, pubErr)
  \/ ShutdownSelected
  \/ \E pubErr \in BOOLEAN : Enqueued(pubErr)
  \/ Dequeue
  \/ DoShutdown

(* ------------------- properties of the subscription -------------------- *)

\* what the callback did with the segments it returned from
Log == Range(subscription.log)

\* C20 as stated: for every segment delivered to the callback and merged,
\* final or not, the callback publishes one acknowledgement to its reply
\* subject, also for a final segment when shutdown is signalled while the
\* queue is full.
C20_AckEverySegment ==
  \A r \in Log : ~r.handleErr => r.publishes = 1

\* C20 as the code has it: the callback publishes one acknowledgement for a
\* merged segment that is not final and for a final segment once its message
\* is enqueued; a final segment whose message is not enqueued, which happens
\* only when shutdown is signalled, and a segment incrNMM.Handle rejects
\* are not acknowledged.
C20_AckUnlessShutdown ==
  \A r \in Log :
    /\ r.publishes = (IF ~r.handleErr /\ (~r.m.final \/ r.enqueued) THEN 1 ELSE 0)
    /\ (~r.handleErr /\ r.m.final /\ ~r.enqueued) => r.shutdown
    /\ r.enqueued => r.m.final /\ ~r.handleErr

\* the queue is full, shutdown is signalled, and the callback returned from
\* a final segment without acknowledging it
C20_Witness ==
  /\ Len(applier.incrBytesQueue) = QueueCap
  /\ applier.shutdown
  /\ \E r \in Log : r.m.final /\ ~r.handleErr /\ ~r.enqueued /\ r.publishes = 0
  /\ \E r \in Log : r.m.final /\ r.enqueued /\ r.publishes = 1
  /\ \E r \in Log : ~r.m.final /\ r.publishes = 1

\* C21: backpressure. While the callback waits at the select with the
\* final segment of a logical message, full queue included, no
\* acknowledgement for that segment has been published; and every final
\* segment that was acknowledged is the last segment of a payload that was
\* placed on incrBytesQueue, so a completed payload that was not enqueued
\* is never acknowledged.
C21_Backpressure ==
  /\ subscription.pc = "select" =>
       subscription.m.Reply \notin subscription.acks
  /\ \A r \in Log :
       (r.m.final /\ r.m.Reply \in subscription.acks) =>
         /\ r.enqueued
         /\ \E i \in DOMAIN subscription.queued :
              subscription.queued[i][Len(subscription.queued[i])] = r.m.Reply

\* the callback waits at the select with a final segment while the queue is
\* full, after an earlier final segment was acknowledged once enqueued
C21_Witness ==
  /\ subscription.pc = "select"
  /\ subscription.m.final
  /\ Len(applier.incrBytesQueue) = QueueCap
  /\ \E r \in Log : r.m.final /\ r.enqueued /\ r.m.Reply \in subscription.acks

\* segment n was the final segment of its logical message
IsFinal(n) == \E r \in Log : r.m.Reply = n /\ r.m.final

\* The payloads sent to the queue are the logical messages, whole, once each
\* and in arrival order: every payload is the run of segments from the one
\* after the previous payload's last up to the next final segment.
WholeMessages ==
  \A i \in DOMAIN subscription.queued :
    LET bs == subscription.queued[i]
        before == IF i = 1 THEN 0
                  ELSE subscription.queued[i - 1][Len(subscription.queued[i - 1])]
    IN /\ bs # <<>>
       /\ bs = [k \in 1..Len(bs) |-> before + k]
       /\ \A k \in 1..Len(bs) : IsFinal(bs[k]) <=> k = Len(bs)

\* The callback takes the merger's bytes only right after the Handle call
\* that reported the final segment, and after enqueuing a payload it leaves
\* the merger empty for the next segment.
MergerProtocol ==
  /\ subscription.pc = "select" =>
       /\ subscription.m.final
       /\ subscription.incrNMM # <<>>
       /\ subscription.incrNMM[Len(subscription.incrNMM)] = subscription.m.Reply
  /\ (/\ subscription.pc = "idle"
      /\ subscription.log # <<>>
      /\ subscription.log[Len(subscription.log)].enqueued) =>
       subscription.incrNMM = <<>>

MaxRows == 3

\* BufSizeLimit and BufSizeLimitDelta of ApplyEventQueries, in bytes
BufSizeLimit == 1048576

BufSizeLimitDelta == 1024

\* bytes of "replace into `s`.`t` values (": the statement head written for
\* the first row of a statement, for schema s and table t
HeaderLen == 13 + 7 + 9

\* a cell of a row: nil, or a value whose escaped text has len bytes
Cell(null, len) == [null |-> null, len |-> len]

\* The rows of the model: ('x',NULL); a row that as the first of a
\* statement leaves the buffer 11 bytes under the limit, which a following
\* ('x',NULL) fills exactly; and a row of twice the limit.
SmallRow == <<Cell(FALSE, 1), Cell(TRUE, 0)>>

NearRow == <<Cell(FALSE, BufSizeLimit - HeaderLen - 3 - 11)>>

HugeRow == <<Cell(FALSE, 2 * BufSizeLimit)>>

Rows == {SmallRow, NearRow, HugeRow}

\* the DumpEntry values of the model; "" is an absent statement
Entries ==
  [SystemVariablesStatement : {"", "set sysvars"},
   SqlMode : {"", "set sql_mode"},
   DbSQL : {"", "create database"},
   TbSQL : {<<>>, <<"create table t", "", "create table u">>},
   ValuesX : UNION {[1..n -> Rows] : n \in 0..MaxRows}]

\* what executing a statement yields: no error, an error IgnoreError
\* accepts, one IgnoreExistsError accepts too, or any other error
Errs == {"nil", "benign", "exists", "fatal"}

IgnoreError(err) == err \in {"benign", "exists"}

IgnoreExistsError(err) == err = "exists"

\* an executed statement: on one of a.dbs or in the transaction, its text,
\* and for a replace statement the rows it holds and its length in bytes
Stmt(conn, query, rows, len) ==
  [conn |-> conn, query |-> query, rows |-> rows, len |-> len]

\* the inner loop over the cells of a row: bytes written for the cells and
\* the commas between them
RECURSIVE CellsLen(_)
CellsLen(row) ==
  IF row = <<>> THEN 0
  ELSE (IF Head(row).null THEN 4 ELSE 2 + Head(row).len)
       + (IF Len(row) > 1 THEN 1 ELSE 0) + CellsLen(Tail(row))

\* buf.Len() after a row is written to a buffer of bufLen bytes
WriteRow(bufLen, row) ==
  (IF bufLen = 0 THEN HeaderLen ELSE bufLen + 2) + CellsLen(row) + 1

\* mutant of needInsert: the last row does not close the statement
needInsertAtLimitOnly(i, bufLen) == bufLen >= BufSizeLimit

\* mutant of needInsert: the buffer has to exceed the limit
needInsertAboveLimit(i, bufLen) ==
  i = Len(entry.ValuesX) \/ bufLen > BufSizeLimit

\* "needInsert := (i == len(entry.ValuesX)-1) || (buf.Len() >= BufSizeLimit)"
\* for row i, counted from 1
needInsert(i, bufLen) == i = Len(entry.ValuesX) \/ bufLen >= BufSizeLimit

\* mutant of queries: the table DDL comes before the database DDL
queriesTablesFirst ==
  <<entry.SystemVariablesStatement, entry.SqlMode>> \o entry.TbSQL
    \o <<entry.DbSQL>>

\* the statements executed in the transaction ahead of the rows
queries ==
  <<entry.SystemVariablesStatement, entry.SqlMode, entry.DbSQL>> \o entry.TbSQL

\* "for _, query := range queries { if query == "" { continue }": the next
\* statement to execute at or after position i, 0 when none is left
NextQuery(i) ==
  LET left == {j \in i..Len(queries) : queries[j] # ""}
  IN IF left = {} THEN 0 ELSE CHOOSE j \in left : \A k \in left : j <= k

\* the call returns without having opened the transaction
ReturnErr(a) == [a EXCEPT !.pc = "done", !.ret = "error"]

\* The call returns err after BeginTx: the deferred function commits the
\* transaction, calls onError when the commit fails, and adds the entry's
\* rows to TotalRowsReplayed.
deferCommit(a, err, commitErr) ==
  [a EXCEPT !.pc = "done", !.ret = err,
            !.committed = ~commitErr,
            !.exits = IF commitErr THEN @ + 1 ELSE @,
            !.TotalRowsReplayed = @ + Len(entry.ValuesX)]

\* on to the statement at or after position i of queries, to the rows when
\* none is left, and to the return when there are no rows either
Proceed(a, i, commitErr) ==
  IF NextQuery(i) # 0 THEN [a EXCEPT !.pc = "queries", !.i = NextQuery(i)]
  ELSE IF entry.ValuesX # <<>> THEN [a EXCEPT !.pc = "rows", !.i = 1]
  ELSE deferCommit(a, "nil", commitErr)

\* a statement is executed and fails with err, or succeeds when err is nil
Exec(a, st, err) ==
  [a EXCEPT !.executed = Append(@, st),
            !.last = [st |-> st, err |-> err, warned |-> FALSE]]

\* execQuery: an error IgnoreError rejects is returned; one it accepts is
\* dropped, with a warning unless IgnoreExistsError accepts it
execQuery(a, st, err) ==
  [Exec(a, st, err) EXCEPT
     !.last.warned = err # "nil" /\ IgnoreError(err) /\ ~IgnoreExistsError(err)]

NoStmt == Stmt("", "", <<>>, 0)

\* ApplyEventQueries is entered with some entry, on an applier with one or
\* two worker connections
ApplyInit ==
  /\ entry \in Entries
  /\ \E workers \in 1..2, dependency \in BOOLEAN :
       apply = [ParallelWorkers |-> workers, UseMySQLDependency |-> dependency,
                pc |-> IF entry.SystemVariablesStatement # "" THEN "sysvars"
                       ELSE IF entry.SqlMode # "" THEN "sqlmode" ELSE "begin",
                i |-> 1, executed |-> <<>>,
                last |-> [st |-> NoStmt, err |-> "nil", warned |-> FALSE],
                buf |-> <<>>, bufLen |-> 0, began |-> FALSE,
                committed |-> FALSE, ret |-> "running", exits |-> 0,
                TotalRowsReplayed |-> 0]

\* "for i := range a.dbs": the sysvars statement on connection apply.i
ExecSysVars(err) ==
  /\ apply.pc = "sysvars"
  /\ LET a == Exec(apply, Stmt("dbs", entry.SystemVariablesStatement, <<>>, 0), err)
     IN apply' = IF err # "nil" THEN ReturnErr(a)
                 ELSE IF apply.i < apply.ParallelWorkers
                 THEN [a EXCEPT !.i = @ + 1]
                 ELSE [a EXCEPT !.i = 1,
                                !.pc = IF entry.SqlMode # "" THEN "sqlmode"
                                       ELSE "begin"]
  /\ UNCHANGED <<entry, notApply>>

\* "for i := range a.dbs": the sql_mode statement on connection apply.i
ExecSqlMode(err) ==
  /\ apply.pc = "sqlmode"
  /\ LET a == Exec(apply, Stmt("dbs", entry.SqlMode, <<>>, 0), err)
     IN apply' = IF err # "nil" THEN ReturnErr(a)
                 ELSE IF apply.i < apply.ParallelWorkers
                 THEN [a EXCEPT !.i = @ + 1]
                 ELSE [a EXCEPT !.i = 1, !.pc = "begin"]
  /\ UNCHANGED <<entry, notApply>>

\* db.BeginTx
BeginTx(ok) ==
  /\ apply.pc = "begin"
  /\ apply' = IF ok THEN [apply EXCEPT !.pc = "fk", !.began = TRUE]
              ELSE ReturnErr(apply)
  /\ UNCHANGED <<entry, notApply>>

\* "SET @@session.foreign_key_checks = 0" in the transaction
SetForeignKeyChecks(err, commitErr) ==
  /\ apply.pc = "fk"
  /\ LET a == Exec(apply, Stmt("tx", "set foreign_key_checks = 0", <<>>, 0), err)
     IN apply' = IF err # "nil" THEN deferCommit(a, "error", commitErr)
                 ELSE Proceed(a, 1, commitErr)
  /\ UNCHANGED <<entry, notApply>>

\* one turn of "for _, query := range queries" that executes a statement
ExecQueries(err, commitErr) ==
  /\ apply.pc = "queries"
  /\ LET a == execQuery(apply, Stmt("tx", queries[apply.i], <<>>, 0), err)
     IN apply' = IF err # "nil" /\ ~IgnoreError(err)
                 THEN deferCommit(a, "error", commitErr)
                 ELSE Proceed(a, apply.i + 1, commitErr)
  /\ UNCHANGED <<entry, notApply>>

\* One turn of "for i, _ := range entry.ValuesX": row apply.i is written to
\* the buffer, and the buffer is executed and reset when needInsert holds.
WriteRows(err, commitErr) ==
  /\ apply.pc = "rows"
  /\ LET i == apply.i
         len == WriteRow(apply.bufLen, entry.ValuesX[i])
         rows == Append(apply.buf, i)
         a == [execQuery(apply, Stmt("tx", "replace", rows, len), err)
                 EXCEPT !.buf = <<>>, !.bufLen = 0]
     IN apply' =
          IF ~needInsert(i, len)
          THEN [apply EXCEPT !.buf = rows, !.bufLen = len, !.i = i + 1]
          ELSE IF err # "nil" /\ ~IgnoreError(err)
          THEN deferCommit(a, "error", commitErr)
          ELSE IF i = Len(entry.ValuesX)
          THEN deferCommit(a, "nil", commitErr)
          ELSE [a EXCEPT !.i = i + 1]
  /\ UNCHANGED <<entry, notApply>>

ApplyNext ==
  \/ \E err \in Errs : ExecSysVars(err)
  \/ \E err \in Errs : ExecSqlMode(err)
  \/ \E ok \in BOOLEAN : BeginTx(ok)
  \/ \E err \in Errs, commitErr \in BOOLEAN : SetForeignKeyChecks(err, commitErr)
  \/ \E err \in Errs, commitErr \in BOOLEAN : ExecQueries(err, commitErr)
  \/ \E err \in Errs, commitErr \in BOOLEAN : WriteRows(err, commitErr)

(* ------------------- properties of ApplyEventQueries ------------------- *)

\* the statement executed last went through execQuery
ThroughExecQuery ==
  /\ apply.last.st.conn = "tx"
  /\ apply.last.st.query # "set foreign_key_checks = 0"

\* the statements executed in the transaction, in order
InTx == SelectSeq(apply.executed, LAMBDA st : st.conn = "tx")

\* the replace statements executed, in order
Replaces == SelectSeq(apply.executed, LAMBDA st : st.query = "replace")

\* C23: when a statement of ApplyEventQueries fails with an error that is
\* not ignorable, no later statement of the entry is executed, the
\* destination transaction is not committed, and the error is returned to
\* the caller.
C23_ApplyErrorAborts ==
  (ThroughExecQuery /\ apply.last.err = "fatal") =>
    /\ apply.pc = "done"
    /\ apply.ret = "error"
    /\ ~apply.committed

\* the foreign-key policy requires the checks on: "ParallelWorkers <= 1 ||
\* UseMySQLDependency"
ForeignKeyPolicy == apply.ParallelWorkers <= 1 \/ apply.UseMySQLDependency

IsPrefix(s, t) == Len(s) <= Len(t) /\ s = SubSeq(t, 1, Len(s))

\* the texts of the statements executed in the transaction
InTxText == [k \in 1..Len(InTx) |-> InTx[k].query]

\* The statements the entry asks for, in the order of the claim, after the
\* foreign_key_checks statement when fk says it is set: sysvars, sql_mode,
\* database DDL, table DDL in list order, the empty ones left out, then
\* the replace statements.
ExpectedTx(fk) ==
  (IF fk THEN <<"set foreign_key_checks = 0">> ELSE <<>>)
    \o SelectSeq(<<entry.SystemVariablesStatement, entry.SqlMode, entry.DbSQL>>
                   \o entry.TbSQL,
                 LAMBDA q : q # "")
    \o [k \in 1..Len(Replaces) |-> "replace"]

\* The transaction is open before any of its statements; the statements
\* executed in it are, at every moment, a first part of the expected ones,
\* and all of them once the call returned nil; replace statements take the
\* rows in row order; nothing is executed after the commit.
StatementOrder(fk) ==
  /\ InTx # <<>> => apply.began
  /\ (apply.began /\ apply.pc # "fk") =>
       (fk <=> InTx[1].query = "set foreign_key_checks = 0")
  /\ IsPrefix(InTxText, ExpectedTx(fk))
  /\ \A k \in 1..Len(Replaces) - 1 :
       Replaces[k].rows[Len(Replaces[k].rows)] < Replaces[k + 1].rows[1]
  /\ apply.committed => apply.pc = "done"
  /\ (apply.pc = "done" /\ apply.ret = "nil") =>
       /\ InTxText = ExpectedTx(fk)
       /\ entry.ValuesX # <<>> => Replaces # <<>>

\* C24 as stated: ApplyEventQueries opens the destination transaction, sets
\* foreign_key_checks = 0 unless the policy requires the checks on, and then
\* executes in the transaction, in this order, the sysvars statement, the
\* sql_mode statement, the database DDL, each table DDL in list order and
\* the row statements in row order; empty statements are skipped and the
\* commit comes after the last row statement.
C24_StatementOrderByPolicy == StatementOrder(~ForeignKeyPolicy)

\* C24 as the code has it: the same order, with foreign_key_checks = 0 set
\* in every call, whatever the policy.
C24_StatementOrder == StatementOrder(TRUE)

\* a call that returned nil and committed, under a policy that requires the
\* checks on, after the foreign_key_checks statement, all five statements
\* of the entry and a replace statement
C24_Witness ==
  /\ apply.pc = "done"
  /\ apply.ret = "nil"
  /\ apply.committed
  /\ ForeignKeyPolicy
  /\ entry.TbSQL # <<>>
  /\ Len(InTx) >= 7
  /\ Len(Replaces) >= 2

\* C25: a statement error that satisfies IgnoreError is swallowed
\* silently, with no warning, and one that satisfies IgnoreExistsError is
\* swallowed with a warning logged; neither stops ApplyEventQueries.
C25_IgnorableErrors ==
  ThroughExecQuery =>
    /\ (IgnoreError(apply.last.err) /\ ~IgnoreExistsError(apply.last.err)) =>
         ~apply.last.warned /\ apply.ret # "error"
    /\ IgnoreExistsError(apply.last.err) =>
         apply.last.warned /\ apply.ret # "error"

\* the rows of the first k replace statements, in order
RECURSIVE RowsOf(_)
RowsOf(k) == IF k = 0 THEN <<>> ELSE RowsOf(k - 1) \o Replaces[k].rows

\* bytes of the replace statement that holds the rows rs of the entry
RECURSIVE RenderedLen(_)
RenderedLen(rs) ==
  IF rs = <<>> THEN 0
  ELSE LET front == SubSeq(rs, 1, Len(rs) - 1)
       IN (IF front = <<>> THEN HeaderLen ELSE RenderedLen(front) + 2)
          + CellsLen(entry.ValuesX[rs[Len(rs)]]) + 1

\* the rows rs, written to the buffer, close the statement: the buffer has
\* reached the limit or the last row of the entry is in
Closes(rs) ==
  \/ RenderedLen(rs) >= BufSizeLimit
  \/ rs[Len(rs)] = Len(entry.ValuesX)

\* C26: row batching. The replace statements issued, followed by the rows
\* still in the buffer, hold the rows written so far once each and in input
\* order, and hold every row once the call has returned nil. A statement is
\* closed exactly when the buffer has reached the size limit or the final
\* row has been written: each statement issued closes with its last row
\* and with none before it, and the rows in the buffer do not close. An
\* entry whose rendered rows stay under the limit yields one statement, and
\* an entry without rows yields none.
C26_RowBatching ==
  LET written == RowsOf(Len(Replaces)) \o apply.buf
      n == Len(entry.ValuesX)
  IN /\ written = [j \in 1..Len(written) |-> j]
     /\ (apply.pc = "done" /\ apply.ret = "nil") =>
          Len(written) = n /\ apply.buf = <<>>
     /\ \A k \in 1..Len(Replaces) :
          LET rs == Replaces[k].rows
          IN /\ rs # <<>>
             /\ Replaces[k].len = RenderedLen(rs)
             /\ \A m \in 1..Len(rs) : Closes(SubSeq(rs, 1, m)) <=> m = Len(rs)
     /\ \A m \in 1..Len(apply.buf) : ~Closes(SubSeq(apply.buf, 1, m))
     /\ (/\ apply.pc = "done"
         /\ apply.ret = "nil"
         /\ n > 0
         /\ RenderedLen([j \in 1..n |-> j]) < BufSizeLimit) =>
          Len(Replaces) = 1
     /\ n = 0 => Replaces = <<>>

\* a call that returned nil after three rows in two statements, the first
\* closed by the second row, which brought it to the limit exactly
C26_Witness ==
  /\ apply.pc = "done"
  /\ apply.ret = "nil"
  /\ Len(Replaces) = 2
  /\ Replaces[1].rows = <<1, 2>>
  /\ Replaces[1].len = BufSizeLimit
  /\ Replaces[2].rows = <<3>>

\* the statement st holds the last row of the entry
HoldsLastRow(st) == st.rows[Len(st.rows)] = Len(entry.ValuesX)

\* C27 as stated: every replace statement issued has a rendered length of at
\* most the limit plus the overhead window of 1024 bytes, whatever the size
\* of the rows, and every statement except the last of an entry has a
\* rendered length of at least the limit.
C27_BatchSizeBound ==
  \A k \in 1..Len(Replaces) :
    /\ Replaces[k].len <= BufSizeLimit + BufSizeLimitDelta
    /\ ~HoldsLastRow(Replaces[k]) => Replaces[k].len >= BufSizeLimit

\* C27 as the code has it: before its last row was written, the buffer of
\* every replace statement issued was under the limit, so the statement
\* exceeds the limit by less than the bytes its last row added, and stays
\* within the overhead window when that row added no more than 1024 bytes;
\* every statement except the last of an entry has a rendered length of at
\* least the limit.
C27_BatchSizeBoundByLastRow ==
  \A k \in 1..Len(Replaces) :
    LET st == Replaces[k]
        before == RenderedLen(SubSeq(st.rows, 1, Len(st.rows) - 1))
    IN /\ before < BufSizeLimit
       /\ st.len - before <= BufSizeLimitDelta =>
            st.len < BufSizeLimit + BufSizeLimitDelta
       /\ ~HoldsLastRow(st) => st.len >= BufSizeLimit

\* a statement closed at the limit exactly, followed by a statement of one
\* row that is longer than the limit and the overhead window together
C27_Witness ==
  /\ Len(Replaces) = 2
  /\ Replaces[1].len = BufSizeLimit
  /\ Replaces[2].len > BufSizeLimit + BufSizeLimitDelta
  /\ Len(Replaces[2].rows) = 1

(* ===================== part 6: onError and Shutdown ==================== *)

\* tasks that call onError or Shutdown
NumTasks == 2

\* most calls of onError and Shutdown made in one run
MaxCalls == 3

\* room in the wait channel, which the driver hands to NewApplierOracle
WaitChCap == 1

\* a task between calls; the fields keep what its last call did: the call
\* and its arguments, whether onError read a.shutdown as set, whether it
\* called Publish and on what connection, whether it sent its ExitResult,
\* and whether Shutdown found the applier shut down already
Idle ==
  [pc |-> "idle", call |-> "none", state |-> "", err |-> "", saw |-> FALSE,
   published |-> FALSE, conn |-> "nil", sent |-> FALSE, again |-> FALSE]

\* the error task t reports, by its text
ErrorOf == [t \in 1..NumTasks |-> <<"e1", "e2", "e3">>[t]]

\* the ExitResult of onError(state, err)
ExitResult(state, err) == [ExitCode |-> state, Err |-> err]

\* the ControlMsg of onError(state, err)
ControlMsg(err) == [Type |-> "ControlMsgError", Msg |-> err]

\* NewApplierOracle: not shut down, no bus connection yet. control2 holds
\* the messages published on the control2 subject, sent every ExitResult
\* sent to waitCh, teardown the teardown steps taken, each in order.
LifecycleInit ==
  /\ oracle = [shutdown |-> FALSE, natsConn |-> "nil", shutdownLock |-> 0,
               waitCh |-> <<>>, control2 |-> <<>>, sent |-> <<>>,
               teardown |-> <<>>, calls |-> 0]
  /\ tasks = [t \in 1..NumTasks |-> Idle]

\* initNatSubClient, called by Run
InitNatSubClient ==
  /\ oracle.natsConn = "nil"
  /\ oracle' = [oracle EXCEPT !.natsConn = "open"]
  /\ UNCHANGED <<tasks, notLifecycle>>

\* mutant of OnErrorEnter: a.shutdown is not looked at
OnErrorEnterUnchecked(t, state, err) ==
  /\ tasks[t].pc = "idle"
  /\ oracle.calls < MaxCalls
  /\ oracle' = [oracle EXCEPT !.calls = @ + 1]
  /\ tasks' = [tasks EXCEPT ![t] =
       [Idle EXCEPT !.call = "onError", !.state = state, !.err = err,
                    !.saw = oracle.shutdown, !.pc = "publish"]]
  /\ UNCHANGED notLifecycle

\* task t calls onError(state, err): "if a.shutdown { return }", read
\* without the lock
OnErrorEnter(t, state, err) ==
  /\ tasks[t].pc = "idle"
  /\ oracle.calls < MaxCalls
  /\ oracle' = [oracle EXCEPT !.calls = @ + 1]
  /\ tasks' = [tasks EXCEPT ![t] =
       [Idle EXCEPT !.call = "onError", !.state = state, !.err = err,
                    !.saw = oracle.shutdown,
                    !.pc = IF oracle.shutdown THEN "idle" ELSE "publish"]]
  /\ UNCHANGED notLifecycle

\* "switch state": for TaskStateRestart and TaskStateDead the ControlMsg is
\* published on control2 when a.natsConn is not nil; a failed Publish, as
\* on a closed connection, is logged only
OnErrorPublish(t, pubErr) ==
  /\ tasks[t].pc = "publish"
  /\ LET publish == tasks[t].state # "TaskStateComplete" /\ oracle.natsConn # "nil"
     IN /\ oracle' = IF publish /\ oracle.natsConn = "open" /\ ~pubErr
                     THEN [oracle EXCEPT !.control2 = Append(@, ControlMsg(tasks[t].err))]
                     ELSE oracle
        /\ tasks' = [tasks EXCEPT ![t].pc = "send",
                                  ![t].published = publish,
                                  ![t].conn = oracle.natsConn]
  /\ UNCHANGED notLifecycle

\* "a.waitCh <- &drivers.ExitResult{...}", then "_ = a.Shutdown()"
OnErrorSend(t) ==
  /\ tasks[t].pc = "send"
  /\ Len(oracle.waitCh) < WaitChCap
  /\ LET r == ExitResult(tasks[t].state, tasks[t].err)
     IN oracle' = [oracle EXCEPT !.waitCh = Append(@, r), !.sent = Append(@, r)]
  /\ tasks' = [tasks EXCEPT ![t].pc = "lock", ![t].sent = TRUE]
  /\ UNCHANGED notLifecycle

\* the driver takes a result off the wait channel
WaitTask ==
  /\ oracle.waitCh # <<>>
  /\ oracle' = [oracle EXCEPT !.waitCh = Tail(@)]
  /\ UNCHANGED <<tasks, notLifecycle>>

\* task t calls Shutdown itself
ShutdownCall(t) ==
  /\ tasks[t].pc = "idle"
  /\ oracle.calls < MaxCalls
  /\ oracle' = [oracle EXCEPT !.calls = @ + 1]
  /\ tasks' = [tasks EXCEPT ![t] = [Idle EXCEPT !.call = "Shutdown", !.pc = "lock"]]
  /\ UNCHANGED notLifecycle

\* mutant of ShutdownEnter: "if a.shutdown { return nil }" is left out
ShutdownEnterUnchecked(t) ==
  /\ tasks[t].pc = "lock"
  /\ oracle.shutdownLock = 0
  /\ oracle' = [oracle EXCEPT
       !.shutdownLock = t,
       !.natsConn = IF @ = "nil" THEN @ ELSE "closed",
       !.teardown = IF oracle.natsConn = "nil" THEN @
                    ELSE Append(@, "natsConn.Close")]
  /\ tasks' = [tasks EXCEPT ![t].pc = "flag"]
  /\ UNCHANGED notLifecycle

\* Shutdown takes shutdownLock; it returns nil when a.shutdown is set, and
\* closes the bus connection otherwise
ShutdownEnter(t) ==
  /\ tasks[t].pc = "lock"
  /\ oracle.shutdownLock = 0
  /\ IF oracle.shutdown
     THEN /\ tasks' = [tasks EXCEPT ![t].pc = "idle", ![t].again = TRUE]
          /\ UNCHANGED oracle
     ELSE /\ oracle' = [oracle EXCEPT
               !.shutdownLock = t,
               !.natsConn = IF @ = "nil" THEN @ ELSE "closed",
               !.teardown = IF oracle.natsConn = "nil" THEN @
                            ELSE Append(@, "natsConn.Close")]
          /\ tasks' = [tasks EXCEPT ![t].pc = "flag"]
  /\ UNCHANGED notLifecycle

\* "a.shutdown = true" and "close(a.shutdownCh)"
ShutdownFlag(t) ==
  /\ tasks[t].pc = "flag"
  /\ oracle' = [oracle EXCEPT !.shutdown = TRUE,
                              !.teardown = Append(@, "close(shutdownCh)")]
  /\ tasks' = [tasks EXCEPT ![t].pc = "join"]
  /\ UNCHANGED notLifecycle

\* the rest of Shutdown: the wait groups are joined, the context is
\* cancelled, the DB handle and the worker connections are closed, and the
\* lock is released on return
ShutdownFinish(t) ==
  /\ tasks[t].pc = "join"
  /\ oracle' = [oracle EXCEPT
       !.shutdownLock = 0,
       !.teardown = @ \o <<"wg.Wait", "cancelFunc", "CloseDB", "CloseConns">>]
  /\ tasks' = [tasks EXCEPT ![t].pc = "idle"]
  /\ UNCHANGED notLifecycle

LifecycleNext ==
  \/ InitNatSubClient
  \/ \E t \in 1..NumTasks, state \in {"TaskStateComplete", "TaskStateDead"} :
       OnErrorEnter(t, state, ErrorOf[t])
  \/ \E t \in 1..NumTasks, pubErr \in BOOLEAN : OnErrorPublish(t, pubErr)
  \/ \E t \in 1..NumTasks : OnErrorSend(t)
  \/ WaitTask
  \/ \E t \in 1..NumTasks : ShutdownCall(t)
  \/ \E t \in 1..NumTasks : ShutdownEnter(t)
  \/ \E t \in 1..NumTasks : ShutdownFlag(t)
  \/ \E t \in 1..NumTasks : ShutdownFinish(t)

(* ------------------ properties of onError and Shutdown ----------------- *)

\* C28: over any interleaving of onError calls from different tasks, at most
\* one ExitResult is ever sent on the wait channel, and once one has been
\* sent no onError call sends another.
C28_OneFinalResult == Len(oracle.sent) <= 1

\* the onError call of task t found the applier not shut down and is past
\* the switch on state
PastPublish(t) ==
  /\ tasks[t].call = "onError"
  /\ ~tasks[t].saw
  /\ tasks[t].pc # "publish"

\* the onError call of task t is past the send on the wait channel
PastSend(t) == PastPublish(t) /\ tasks[t].pc # "send"

\* What C29 says of every onError call apart from the publish: a call that
\* finds the applier shut down returns at once, having published and sent
\* nothing; any other call sends the ExitResult of its state and err after
\* the switch on state, calls Shutdown after the send, and returns with
\* the applier shut down.
SendThenShutdown ==
  \A t \in 1..NumTasks :
    tasks[t].call = "onError" =>
      /\ tasks[t].saw =>
           tasks[t].pc = "idle" /\ ~tasks[t].published /\ ~tasks[t].sent
      /\ tasks[t].pc = "publish" => ~tasks[t].published
      /\ tasks[t].sent <=> PastSend(t)
      /\ tasks[t].sent =>
           ExitResult(tasks[t].state, tasks[t].err) \in Range(oracle.sent)
      /\ (PastSend(t) /\ tasks[t].pc = "idle") => oracle.shutdown
      /\ \A k \in 1..Len(oracle.control2) :
           oracle.control2[k].Type = "ControlMsgError"

\* C29 as stated: an onError(state, err) call made while the applier is not
\* shut down publishes a ControlMsg of type Error with err's text on
\* control2, then sends an ExitResult with state and err on the wait
\* channel, then triggers Shutdown, in that order; a call made after
\* shutdown publishes nothing and sends nothing.
C29_ErrorPropagation ==
  /\ SendThenShutdown
  /\ \A t \in 1..NumTasks : PastPublish(t) => tasks[t].published

\* C29 as the code has it: the ControlMsg is published only for the states
\* TaskStateRestart and TaskStateDead and only when the applier has a bus
\* connection; the send, the Shutdown and their order are as stated.
C29_ErrorPropagationWithBus ==
  /\ SendThenShutdown
  /\ \A t \in 1..NumTasks :
       PastPublish(t) =>
         (tasks[t].published <=>
            tasks[t].state # "TaskStateComplete" /\ tasks[t].conn # "nil")

\* one onError call published on the open bus connection, sent its result
\* and shut the applier down; a later one found the applier shut down
C29_Witness ==
  \E t, u \in 1..NumTasks :
    /\ PastSend(t)
    /\ tasks[t].pc = "idle"
    /\ tasks[t].published
    /\ tasks[t].conn = "open"
    /\ ControlMsg(tasks[t].err) \in Range(oracle.control2)
    /\ tasks[u].call = "onError"
    /\ tasks[u].saw

\* how many times the teardown step e was taken
Taken(e) ==
  Cardinality({k \in 1..Len(oracle.teardown) : oracle.teardown[k] = e})

\* C30: Shutdown is idempotent. For any number of Shutdown calls, one after
\* the other or at the same time, the broadcast channel is closed once, and
\* the bus connection and the DB connections are torn down once: no
\* teardown step is taken twice, one call at most is inside the teardown,
\* and the channel is closed exactly when the applier is marked shut down.
\* A call that finds the applier shut down returns as soon as it holds the
\* lock, with nil, and takes no teardown step.
C30_ShutdownIdempotent ==
  /\ \A e \in Range(oracle.teardown) : Taken(e) = 1
  /\ Taken("close(shutdownCh)") = (IF oracle.shutdown THEN 1 ELSE 0)
  /\ \A t, u \in 1..NumTasks :
       (tasks[t].pc \in {"flag", "join"} /\ tasks[u].pc \in {"flag", "join"}) =>
         t = u /\ oracle.shutdownLock = t
  /\ \A t \in 1..NumTasks :
       tasks[t].again =>
         /\ tasks[t].pc = "idle"
         /\ oracle.shutdown
         /\ oracle.shutdownLock # t
  /\ Taken("CloseConns") = 1 =>
       oracle.teardown \in
         {<<"close(shutdownCh)", "wg.Wait", "cancelFunc", "CloseDB", "CloseConns">>,
          <<"natsConn.Close", "close(shutdownCh)", "wg.Wait", "cancelFunc",
            "CloseDB", "CloseConns">>}

\* a Shutdown call tore the applier down, bus connection included, and
\* another task's Shutdown call returned at once after it
C30_Witness ==
  \E t, u \in 1..NumTasks :
    /\ tasks[t].call = "Shutdown"
    /\ tasks[t].pc = "idle"
    /\ ~tasks[t].again
    /\ tasks[u].call = "Shutdown"
    /\ tasks[u].again
    /\ Taken("natsConn.Close") = 1
    /\ Taken("CloseConns") = 1

\* every a among the teardown steps taken so far was taken before every b
TakenBefore(a, b) ==
  \A i, j \in 1..Len(oracle.teardown) :
    (oracle.teardown[i] = a /\ oracle.teardown[j] = b) => i < j

\* C31: Shutdown tears the applier down in a fixed order. The bus
\* connection is closed first, then the cancel token fires, only after that
\* the wait group joins all tasks, and the DB connections are closed after
\* the join.
C31_ShutdownOrder ==
  /\ \A e \in Range(oracle.teardown) \ {"natsConn.Close"} :
       TakenBefore("natsConn.Close", e)
  /\ TakenBefore("cancelFunc", "wg.Wait")
  /\ TakenBefore("wg.Wait", "CloseDB")
  /\ TakenBefore("wg.Wait", "CloseConns")

\* C38: TotalRowsReplayed equals the total number of rows of the
\* DumpEntries whose transaction committed successfully. A call of
\* ApplyEventQueries that fails on a statement, or whose commit fails, does
\* not increase the counter.
C38_RowsReplayedCommitted ==
  apply.TotalRowsReplayed =
    (IF apply.pc = "done" /\ apply.ret = "nil" /\ apply.committed
     THEN Len(entry.ValuesX) ELSE 0)

(* ------------- Part 7: Run and the subscription beside it -------------- *)

\* the ParallelWorkers values a job is configured with: 1..MaxWorkers
MaxWorkers == 2

\* the messages the bus delivers while and after Run runs
MaxDeliveries == 2

\* the versions GetSomeSysVars reports, as the characters of the string
Versions ==
  {<<"5", ".", "6", ".", "4", "0">>, <<"5", ".", "7", ".", "3", "0">>,
   <<"8", ".", "0", ".", "2", "1">>}

\* strings.HasPrefix
HasPrefix(s, prefix) ==
  Len(s) >= Len(prefix) /\ SubSeq(s, 1, Len(prefix)) = prefix

\* ApplierOracle.Shutdown on the fields Run works on: unless shut down
\* already, the bus connection and the DB handle are closed when there are
\* any, and the applier is marked shut down
RunShutdown(r) ==
  IF r.shutdown THEN r
  ELSE [Shutdown(r) EXCEPT !.natsConn = IF @ = "open" THEN "closed" ELSE @,
                           !.db = IF @ = "open" THEN "closed" ELSE @]

\* ApplierOracle.onError(TaskStateDead, err), called by caller: it returns
\* at once on an applier shut down, and sends one ExitResult and shuts the
\* applier down otherwise
RunOnError(r, caller) ==
  [(IF r.shutdown THEN r ELSE RunShutdown([r EXCEPT !.exits = @ + 1]))
     EXCEPT !.onErrors = Append(@, caller)]

\* mutant of Step: the "return" after a.onError is left out
StepNoReturn(r, name, err, next) ==
  LET s == [r EXCEPT !.steps = Append(@, [step |-> name, err |-> err,
                                          shutdown |-> r.shutdown])]
  IN IF err THEN [RunOnError(s, name) EXCEPT !.pc = next]
     ELSE [s EXCEPT !.pc = next]

\* a step of Run was taken and left the applier as r: "if err != nil {
\* a.onError(common.TaskStateDead, err); return }", and on to the next step
\* otherwise. steps records the step, whether it failed, and a.shutdown as
\* the step found it.
Step(r, name, err, next) ==
  LET s == [r EXCEPT !.steps = Append(@, [step |-> name, err |-> err,
                                          shutdown |-> r.shutdown])]
  IN IF err THEN [RunOnError(s, name) EXCEPT !.pc = "returned"]
     ELSE [s EXCEPT !.pc = next]

\* NewApplierOracle, and Run called on it
RunInit ==
  run \in [pc : {"checkJobFinish"}, shutdown : {FALSE}, natsConn : {"nil"},
           subscribed : {FALSE}, putNats : {FALSE}, db : {"nil"}, dbs : {0},
           ParallelWorkers : 1..MaxWorkers, MySQLVersion : {<<>>},
           ai : {"nil"}, incr : {"none"}, steps : {<<>>}, onErrors : {<<>>},
           exits : {0}, aiAtEnqueue : {"none"}, deliveries : {0},
           queued : {0}]

\* checkJobFinish: a failing GetJobStatus is reported with onError, and the
\* applier is shut down when the job status is TargetGtidFinished; Run goes
\* on after it either way
CheckJobFinish(err, jobStatus) ==
  /\ run.pc = "checkJobFinish"
  /\ err => jobStatus = ""
  /\ LET e == IF err THEN RunOnError(run, "checkJobFinish") ELSE run
         f == IF jobStatus = "TargetGtidFinished" THEN RunShutdown(e) ELSE e
     IN run' = [f EXCEPT !.pc = "initNatSubClient"]
  /\ UNCHANGED notRun

\* initNatSubClient: gonats.Connect, and a.natsConn set when it succeeds
RunInitNatSubClient(err) ==
  /\ run.pc = "initNatSubClient"
  /\ run' = Step([run EXCEPT !.natsConn = IF err THEN @ ELSE "open"],
                 "initNatSubClient", err, "subscribeNats")
  /\ UNCHANGED notRun

\* subscribeNats: the callback is subscribed to the incremental subject
SubscribeNats(err) ==
  /\ run.pc = "subscribeNats"
  /\ run' = Step([run EXCEPT !.subscribed = ~err],
                 "subscribeNats", err, "DstPutNats")
  /\ UNCHANGED notRun

\* a.storeManager.DstPutNats, which keeps the callback it is given
DstPutNats(err) ==
  /\ run.pc = "DstPutNats"
  /\ run' = Step([run EXCEPT !.putNats = ~err],
                 "DstPutNats", err, "initDBConnections")
  /\ UNCHANGED notRun

\* the store manager calls the callback DstPutNats was given
DstPutNatsCallback ==
  /\ run.pc # "crashed"
  /\ run.putNats
  /\ run' = RunOnError([run EXCEPT !.putNats = FALSE], "DstPutNats callback")
  /\ UNCHANGED notRun

\* initDBConnections on the applier r, when the call named by fail fails
\* ("nil" for none) and the destination reports the given version: the
\* applier as the call leaves it
initDBConnections(r, fail, version) ==
  IF fail = "InitDB" THEN r
  ELSE LET opened == [r EXCEPT !.db = "open"]
           conns == [opened EXCEPT !.dbs = r.ParallelWorkers]
           vars56 == [conns EXCEPT
                        !.MySQLVersion = version,
                        !.ParallelWorkers =
                          IF HasPrefix(version, <<"5", ".", "6">>) THEN 1
                          ELSE @]
       IN IF fail = "CreateConns" THEN opened
          ELSE IF fail = "GetSomeSysVars" THEN conns
          ELSE vars56

\* Run calls initDBConnections
RunInitDBConnections(fail, version) ==
  /\ run.pc = "initDBConnections"
  /\ run' = Step(initDBConnections(run, fail, version),
                 "initDBConnections", fail # "nil", "NewApplierOracleIncr")
  /\ UNCHANGED notRun

\* "a.ai, err = NewApplierOracleIncr(...)"
NewApplierOracleIncr(err) ==
  /\ run.pc = "NewApplierOracleIncr"
  /\ run' = Step([run EXCEPT !.ai = IF err THEN "nil" ELSE "set"],
                 "NewApplierOracleIncr", err, "go ai.Run")
  /\ UNCHANGED notRun

\* "go func() { err := a.ai.Run() ... }()", and Run returns
StartIncr ==
  /\ run.pc = "go ai.Run"
  /\ run' = Step([run EXCEPT !.incr = "running"],
                 "go ai.Run", FALSE, "returned")
  /\ UNCHANGED notRun

\* a.ai.Run() returns an error in the task Run started
IncrFails ==
  /\ run.pc # "crashed"
  /\ run.incr = "running"
  /\ run' = RunOnError([run EXCEPT !.incr = "failed"], "ai.Run")
  /\ UNCHANGED notRun

\* the bus delivers a message to the callback of subscribeNats, which runs
\* to its end. A message that completes a payload enters the select, which
\* evaluates a.ai.incrBytesQueue: with a.ai unset that is the dereference
\* of a nil pointer, and the process panics.
Deliver(final, handleErr, pubErr) ==
  /\ run.pc # "crashed"
  /\ run.subscribed
  /\ run.natsConn = "open"
  /\ run.deliveries < MaxDeliveries
  /\ LET d == [run EXCEPT !.deliveries = @ + 1]
         q == [d EXCEPT !.queued = @ + 1, !.aiAtEnqueue = "set"]
     IN run' =
          IF handleErr THEN RunOnError(d, "incrNMM.Handle")
          ELSE IF ~final
          THEN (IF pubErr THEN RunOnError(d, "Publish") ELSE d)
          ELSE IF run.ai = "nil"
          THEN [d EXCEPT !.pc = "crashed", !.aiAtEnqueue = "nil"]
          ELSE IF pubErr THEN RunOnError(q, "Publish") ELSE q
  /\ UNCHANGED notRun

RunNext ==
  \/ \E err \in BOOLEAN, jobStatus \in {"", "TargetGtidFinished"} :
       CheckJobFinish(err, jobStatus)
  \/ \E err \in BOOLEAN : RunInitNatSubClient(err)
  \/ \E err \in BOOLEAN : SubscribeNats(err)
  \/ \E err \in BOOLEAN : DstPutNats(err)
  \/ DstPutNatsCallback
  \/ \E fail \in {"nil", "InitDB", "CreateConns", "GetSomeSysVars",
                  "ValidateGrants"},
        version \in Versions : RunInitDBConnections(fail, version)
  \/ \E err \in BOOLEAN : NewApplierOracleIncr(err)
  \/ StartIncr
  \/ IncrFails
  \/ \E final, handleErr, pubErr \in BOOLEAN : Deliver(final, handleErr, pubErr)

(* ------------------------- properties of Run --------------------------- *)

\* C35: the callback of subscribeNats accesses a.ai.incrBytesQueue only
\* after Run created the incremental sub-module: no completed message
\* reaches the enqueue step between subscribeNats and NewApplierOracleIncr,
\* while a.ai is unset.
C35_EnqueueAfterCreation == run.aiAtEnqueue # "nil"

\* C36: when checkJobFinish found the job TargetGtidFinished, or
\* GetJobStatus failed, and Shutdown has completed, Run opens no bus
\* connection, makes no subscription, opens no DB connection and starts no
\* incremental task: no step of Run is taken once a.shutdown is true.
C36_NoStepAfterShutdown ==
  \A k \in 1..Len(run.steps) : ~run.steps[k].shutdown

\* the steps of Run, in the order of the code
RunSteps ==
  <<"initNatSubClient", "subscribeNats", "DstPutNats", "initDBConnections",
    "NewApplierOracleIncr", "go ai.Run">>

\* C37: Run takes its steps in the order bus connect, subscribe, DstPutNats,
\* DB connections, creation of the incremental sub-module, start of the
\* incremental task. When a step fails Run calls onError for it exactly
\* once, and takes none of the later steps; it calls onError for no step
\* that succeeded.
C37_StepFailureStopsRun ==
  /\ Len(run.steps) <= Len(RunSteps)
  /\ \A k \in 1..Len(run.steps) :
       /\ run.steps[k].step = RunSteps[k]
       /\ Count(run.onErrors, LAMBDA c : c = RunSteps[k]) =
            (IF run.steps[k].err THEN 1 ELSE 0)
       /\ run.steps[k].err =>
            k = Len(run.steps) /\ run.pc \in {"returned", "crashed"}

\* initDBConnections failed as the fourth step, and Run has returned
C37_Witness ==
  /\ Len(run.steps) = 4
  /\ run.steps[4].err
  /\ run.onErrors = <<"initDBConnections">>
  /\ run.exits = 1
  /\ run.pc = "returned"

\* C39: after initDBConnections returned successfully the number of worker
\* connections equals the value of ParallelWorkers, also when the version
\* starts with "5.6" and ParallelWorkers is forced to 1.
C39_WorkerConnections ==
  \A k \in 1..Len(run.steps) :
    (run.steps[k].step = "initDBConnections" /\ ~run.steps[k].err) =>
      run.dbs = run.ParallelWorkers

(* --------------------------- Part 8: Stats ----------------------------- *)

\* the row and transaction counts and estimates run over 0..MaxCount
MaxCount == 2

\* ElapsedRowCopyTime, in seconds, runs over 0..MaxElapsed
MaxElapsed == 2

\* a float64: the quotient n/d of two integers, d positive, or the result
\* of a division by zero (+Inf, or NaN for 0/0)
Float(kind, n, d) == [kind |-> kind, n |-> n, d |-> d]

\* x / y on float64 values that hold the integers x >= 0 and y >= 0
FDiv(x, y) ==
  IF y # 0 THEN Float("num", x, y)
  ELSE IF x = 0 THEN Float("NaN", 0, 1)
  ELSE Float("+Inf", 1, 1)

\* the ETA of the statistics: "N/A", "0s", or the duration of secs seconds
\* handed to PrettifyDurationOutput
Eta(text, secs) == [text |-> text, secs |-> secs]

\* "time.Duration(etaSeconds) * time.Second" for etaSeconds = +Inf. The
\* conversion of a float64 that int64 cannot hold is implementation
\* dependent: an amd64 build yields the least int64, whose product with
\* 10^9 wraps to 0, and an arm64 build the greatest int64, whose product
\* wraps to -10^9 nanoseconds.
DurationOfInf(build) == IF build = "amd64" THEN 0 ELSE 0 - 1

\* the figures Stats reads
StatsInputs ==
  [totalDeltaCopied : 0..MaxCount, totalRowsReplay : 0..MaxCount,
   rowsEstimate : 0..MaxCount, deltaEstimate : 0..MaxCount,
   Gtid : {"", "uuid:1-5"}, elapsed : 0..MaxElapsed]

\* ApplierOracle.Stats on the figures in, in a build of the given kind: the
\* progress percentage as the pair <<numerator, denominator>>, the ETA, and
\* whether the stage was set to StageSlaveHasReadAllRelayLog
Stats(in, build) ==
  LET sum == in.totalDeltaCopied + in.totalRowsReplay
      est == in.deltaEstimate + in.rowsEstimate
      progressPct == IF in.rowsEstimate = 0 /\ in.deltaEstimate = 0
                     THEN <<0, 1>> ELSE <<100 * sum, est>>
      totalExpectedSeconds ==
        IF in.Gtid # ""
        THEN FDiv(in.elapsed * in.deltaEstimate, in.totalDeltaCopied)
        ELSE FDiv(in.elapsed * in.rowsEstimate, in.totalRowsReplay)
      \* etaSeconds = totalExpectedSeconds - elapsedRowCopySeconds, times d
      etaTimesD == totalExpectedSeconds.n - in.elapsed * totalExpectedSeconds.d
      etaNonNegative ==
        \/ totalExpectedSeconds.kind = "+Inf"
        \/ totalExpectedSeconds.kind = "num" /\ etaTimesD >= 0
      etaDuration ==
        IF totalExpectedSeconds.kind = "+Inf" THEN DurationOfInf(build)
        ELSE etaTimesD \div totalExpectedSeconds.d
  IN [ProgressPct |-> progressPct,
      eta |-> IF progressPct[1] >= 100 * progressPct[2] THEN Eta("0s", 0)
              ELSE IF progressPct[1] >= progressPct[2]
              THEN (IF etaNonNegative THEN Eta("duration", etaDuration)
                    ELSE Eta("0s", 0))
              ELSE Eta("N/A", 0),
      readAll |-> progressPct[1] >= 100 * progressPct[2]]

NoStats == [ProgressPct |-> <<0, 1>>, eta |-> Eta("", 0), readAll |-> FALSE]

\* the applier with the figures of some moment, Stats not called yet
StatsInit == stats \in [in : StatsInputs, out : {NoStats}, called : {FALSE}]

\* the stats sampler calls Stats
DoStats(build) ==
  /\ ~stats.called
  /\ stats' = [stats EXCEPT !.out = Stats(stats.in, build), !.called = TRUE]
  /\ UNCHANGED notStats

StatsNext == \E build \in {"amd64", "arm64"} : DoStats(build)

(* ------------------------ properties of Stats -------------------------- *)

\* C33: Stats reports a progress of 0 when both estimates are zero and of
\* 100 * (deltaCopied + rowsReplayed) / (deltaEstimate + rowsEstimate)
\* otherwise. The ETA is "0s" at 100% and above and "N/A" under 1%; between
\* those it is a non-negative duration, extrapolated from the elapsed copy
\* time over the row estimate during bulk load (no GTID) and over the delta
\* estimate once a GTID is present.
C33_ProgressAndEta ==
  stats.called =>
    LET in == stats.in
        out == stats.out
        sum == in.totalDeltaCopied + in.totalRowsReplay
        est == in.deltaEstimate + in.rowsEstimate
        estimate == IF in.Gtid = "" THEN in.rowsEstimate ELSE in.deltaEstimate
        done == IF in.Gtid = "" THEN in.totalRowsReplay
                ELSE in.totalDeltaCopied
    IN /\ est = 0 => out.ProgressPct[1] = 0
       /\ est # 0 => out.ProgressPct[1] * est = 100 * sum * out.ProgressPct[2]
       /\ (est # 0 /\ sum >= est) => out.eta = Eta("0s", 0)
       /\ (est = 0 \/ 100 * sum < est) => out.eta = Eta("N/A", 0)
       /\ (est # 0 /\ sum < est /\ 100 * sum >= est) =>
            /\ out.eta.text \in {"0s", "duration"}
            /\ out.eta.secs >= 0
            /\ (done # 0 /\ estimate >= done) =>
                 out.eta = Eta("duration",
                               (in.elapsed * estimate) \div done - in.elapsed)

(* ------------ Part 9: the log of Inspector.InitDBConnections ----------- *)

\* the passwords of the model
Passwords == {"pw1", "pw2"}

\* ConnectionConfig: the connection descriptors of the model
ConnectionConfigs ==
  [Host : {"src-host", "replica"}, Port : {"3306"}, User : {"repl", "root"},
   Password : Passwords, Charset : {"utf8"}]

\* ConnectionConfig.GetDBUri, the text as the sequence of its parts:
\* user:password@tcp(host:port)/?charset=...
GetDBUri(c) ==
  <<c.User, ":", c.Password, "@tcp(", c.Host, ":", c.Port, ")/?charset=",
    c.Charset>>

\* a record handed to the logger: level, message, and the text of the
\* key/value arguments, in order
LogRecord(level, msg, args) == [level |-> level, msg |-> msg, args |-> args]

\* what validateGrants logs
validateGrantsLog(SkipPrivilegeCheck, grants) ==
  IF SkipPrivilegeCheck
  THEN <<LogRecord("Debug", "skipping priv check", <<>>)>>
  ELSE IF grants.err THEN <<>>
  ELSE LET found(word) == \E g \in grants.rows : word \in g.words
           flag(word) == IF found(word) THEN "true" ELSE "false"
       IN IF found("GRANT ALL PRIVILEGES ON")
          THEN <<LogRecord("Info", "User has ALL privileges", <<>>)>>
          ELSE IF found("SUPER") /\ found("REPLICATION SLAVE") /\ found("SELECT")
          THEN <<LogRecord("Info", "User has SUPER, REPLICATION SLAVE privileges, and has SELECT privileges", <<>>)>>
          ELSE IF /\ found("REPLICATION CLIENT")
                  /\ found("REPLICATION SLAVE")
                  /\ found("SELECT")
          THEN <<LogRecord("Info", "User has REPLICATION CLIENT, REPLICATION SLAVE privileges, and has SELECT privileges", <<>>)>>
          ELSE <<LogRecord("Debug", "Privileges",
                           <<"Super", flag("SUPER"),
                             "ReplicationClient", flag("REPLICATION CLIENT"),
                             "ReplicationSlave", flag("REPLICATION SLAVE"),
                             "All", "false", "DBAll", flag("SELECT")>>)>>

\* the records Inspector.InitDBConnections hands to its logger, for the
\* connection descriptor c and the answers src of the source
InitDBConnectionsLog(c, SkipPrivilegeCheck, src) ==
  LET inspectorUri == GetDBUri(c)
      addr == <<c.Host, ":", c.Port>>
      g == validateGrants(SkipPrivilegeCheck, src.grants)
      m == validateGTIDMode(src.gtidMode)
      b == validateBinlogs("", src.binlogs, src.rowImage)
      l1 == <<LogRecord("Debug", "CreateDB", <<"inspectorUri">> \o inspectorUri)>>
      l2 == l1 \o <<LogRecord("Debug", "validateGrants",
                              <<"SkipPrivilegeCheck",
                                IF SkipPrivilegeCheck THEN "true" ELSE "false">>)>>
               \o validateGrantsLog(SkipPrivilegeCheck, src.grants)
      l3 == l2 \o <<LogRecord("Debug", "validateGTIDMode", <<>>)>>
      l4 == l3 \o <<LogRecord("Debug", "validateBinlogs",
                              <<"inspectorUri">> \o inspectorUri)>>
      l5 == l4 \o <<LogRecord("Info", "Binary logs validated",
                              <<"mysql">> \o addr),
                    LogRecord("Info", "Initiated", <<"on">> \o addr)>>
  IN IF src.createDB # "nil" THEN l1
     ELSE IF g # "nil"
     THEN l2 \o <<LogRecord("Error", "Unexpected error on validateGrants",
                            <<"err", g>>)>>
     ELSE IF m # "nil" THEN l3
     ELSE IF b.err # "nil" THEN l4
     ELSE l5

\* two Inspectors whose connection descriptors differ only in the password
LogInit ==
  logged \in {l \in [config : ConnectionConfigs, password2 : Passwords,
                     SkipPrivilegeCheck : BOOLEAN, called : {FALSE},
                     log : {<<>>}, log2 : {<<>>}] :
                l.password2 # l.config.Password}

\* both Inspectors run InitDBConnections against the same source
LogInitDBConnections(src) ==
  /\ ~logged.called
  /\ logged' =
       [logged EXCEPT
          !.called = TRUE,
          !.log = InitDBConnectionsLog(logged.config,
                                       logged.SkipPrivilegeCheck, src),
          !.log2 = InitDBConnectionsLog(
                     [logged.config EXCEPT !.Password = logged.password2],
                     logged.SkipPrivilegeCheck, src)]
  /\ UNCHANGED notLogged

LogNext == \E src \in Sources : LogInitDBConnections(src)

(* ------------------------ properties of the log ------------------------ *)

\* C32: the password of the connection descriptor never appears in a log
\* record: no record of a run of InitDBConnections holds it, and two runs
\* that differ only in the password emit the same log.
C32_PasswordNotLogged ==
  /\ \A k \in 1..Len(logged.log) :
       \A j \in 1..Len(logged.log[k].args) :
         logged.log[k].args[j] # logged.config.Password
  /\ logged.log = logged.log2

(* --------------- Part 10: the GTID set and its checkpoints ------------- *)

\* the source transactions are numbered 1..MaxTx
MaxTx == 2

\* the coordinates gtidCh holds at most
MaxGtidCh == 2

\* the checkpoint uploads of a run
MaxUploads == 3

\* NewApplierOracle: no transaction applied, gtidCh empty, nothing uploaded,
\* no target GTID set. A coordinate on gtidCh is the number of the
\* transaction committed, and 0 is the nil coordinate.
GtidInit ==
  gtid = [gtidSet |-> {}, gtidCh |-> <<>>, uploads |-> <<>>,
          targetGtid |-> {}, watched |-> FALSE]

\* an apply worker commits the transaction tx and sends its coordinate to
\* the checkpoint channel
CommitTx(tx) ==
  /\ tx \notin gtid.gtidSet
  /\ tx \notin Range(gtid.gtidCh)
  /\ Len(gtid.gtidCh) < MaxGtidCh
  /\ gtid' = [gtid EXCEPT !.gtidCh = Append(@, tx)]
  /\ UNCHANGED notGtid

\* the checkpoint task reads a coordinate: a real one is added to the GTID
\* set, which is uploaded now and then; a nil one uploads the set at once
Checkpoint(upload) ==
  /\ gtid.gtidCh # <<>>
  /\ Len(gtid.uploads) < MaxUploads
  /\ LET c == Head(gtid.gtidCh)
         set == IF c = 0 THEN gtid.gtidSet ELSE gtid.gtidSet \cup {c}
     IN gtid' = [gtid EXCEPT
                   !.gtidCh = Tail(@),
                   !.gtidSet = set,
                   !.uploads = IF c = 0 \/ upload
                               THEN Append(@, [set |-> set, forced |-> c = 0])
                               ELSE @]
  /\ UNCHANGED notGtid

\* mutant of WatchTargetGtid: the parsed target is stored in a.gtidSet
WatchTargetGtidIntoSet(target) ==
  /\ ~gtid.watched
  /\ Len(gtid.gtidCh) < MaxGtidCh
  /\ gtid' = [gtid EXCEPT !.watched = TRUE, !.gtidSet = target,
                          !.gtidCh = Append(@, 0)]
  /\ UNCHANGED notGtid

\* watchTargetGtid: the target the coordination store reports is parsed and
\* stored in a.targetGtid, and nil is sent on gtidCh
WatchTargetGtid(target) ==
  /\ ~gtid.watched
  /\ Len(gtid.gtidCh) < MaxGtidCh
  /\ gtid' = [gtid EXCEPT !.watched = TRUE, !.targetGtid = target,
                          !.gtidCh = Append(@, 0)]
  /\ UNCHANGED notGtid

GtidNext ==
  \/ \E tx \in 1..MaxTx : CommitTx(tx)
  \/ \E upload \in BOOLEAN : Checkpoint(upload)
  \/ \E target \in SUBSET (1..MaxTx) : WatchTargetGtid(target)

(* --------------------- properties of the GTID set ---------------------- *)

\* C34: the GTID set only grows. Every checkpoint upload is a superset of
\* the uploads before it, the upload forced by a nil coordinate on the GTID
\* channel included, and the set in memory is a superset of every upload.
C34_GtidMonotonic ==
  /\ \A i, j \in 1..Len(gtid.uploads) :
       i <= j => gtid.uploads[i].set \subseteq gtid.uploads[j].set
  /\ \A i \in 1..Len(gtid.uploads) : gtid.uploads[i].set \subseteq gtid.gtidSet

\* the upload forced by the nil coordinate of watchTargetGtid followed an
\* upload of a set that was not empty
C34_Witness ==
  \E k \in 2..Len(gtid.uploads) :
    /\ gtid.uploads[k].forced
    /\ gtid.uploads[k - 1].set # {}
    /\ gtid.targetGtid # gtid.gtidSet

(* ========================= specifications ============================== *)

\* the merge engine at rest
MergeRest ==
  /\ catalog = NoCall.pre
  /\ last = NoCall
  /\ nMerges = 0

\* the Inspector at rest
InspectorRest ==
  /\ inspector = [db |-> "nil", SkipPrivilegeCheck |-> FALSE,
                  BinlogRowImage |-> "", UseUniqueKey |-> NoKey]
  /\ call = Call("none", "nil", inspector, NoSource, NoTableSource, FALSE)

\* ApplyEventQueries not entered
ApplyRest ==
  /\ entry = [SystemVariablesStatement |-> "", SqlMode |-> "", DbSQL |-> "",
              TbSQL |-> <<>>, ValuesX |-> <<>>]
  /\ apply = [ParallelWorkers |-> 1, UseMySQLDependency |-> FALSE,
              pc |-> "done", i |-> 1, executed |-> <<>>,
              last |-> [st |-> NoStmt, err |-> "nil", warned |-> FALSE],
              buf |-> <<>>, bufLen |-> 0, began |-> FALSE,
              committed |-> FALSE, ret |-> "running", exits |-> 0,
              TotalRowsReplayed |-> 0]

\* Run not called
RunRest ==
  run = [pc |-> "returned", shutdown |-> FALSE, natsConn |-> "nil",
         subscribed |-> FALSE, putNats |-> FALSE, db |-> "nil", dbs |-> 0,
         ParallelWorkers |-> 1, MySQLVersion |-> <<>>, ai |-> "nil",
         incr |-> "none", steps |-> <<>>, onErrors |-> <<>>, exits |-> 0,
         aiAtEnqueue |-> "none", deliveries |-> 0, queued |-> 0]

\* Stats not called
StatsRest ==
  stats = [in |-> [totalDeltaCopied |-> 0, totalRowsReplay |-> 0,
                   rowsEstimate |-> 0, deltaEstimate |-> 0, Gtid |-> "",
                   elapsed |-> 0],
           out |-> NoStats, called |-> FALSE]

\* nothing logged
LogRest ==
  logged = [config |-> [Host |-> "", Port |-> "", User |-> "",
                        Password |-> "", Charset |-> ""],
            password2 |-> "", SkipPrivilegeCheck |-> FALSE,
            called |-> FALSE, log |-> <<>>, log2 |-> <<>>]

\* no transaction applied
GtidRest == GtidInit

\* the parts 7 to 10 at rest
LaterRest == RunRest /\ StatsRest /\ LogRest /\ GtidRest

\* the parts 1 to 6 at rest
EarlierRest ==
  MergeRest /\ CheckerInit /\ InspectorRest /\ ApplierInit /\ ApplyRest
    /\ LifecycleInit

\* the merge engine, the other parts at rest
InitMerge ==
  Init /\ CheckerInit /\ InspectorRest /\ ApplierInit /\ ApplyRest
    /\ LifecycleInit /\ LaterRest

Spec == InitMerge /\ [][Next]_vars

\* the TableChecker, the other parts at rest
InitChecker ==
  CheckerInit /\ MergeRest /\ InspectorRest /\ ApplierInit /\ ApplyRest
    /\ LifecycleInit /\ LaterRest

SpecChecker == InitChecker /\ [][CheckerNext]_vars

\* the Inspector, the other parts at rest
InitInspector ==
  InspectorInit /\ MergeRest /\ CheckerInit /\ ApplierInit /\ ApplyRest
    /\ LifecycleInit /\ LaterRest

SpecInspector == InitInspector /\ [][InspectorNext]_vars

\* the applier's subscription, the other parts at rest
InitApplier ==
  ApplierInit /\ MergeRest /\ CheckerInit /\ InspectorRest /\ ApplyRest
    /\ LifecycleInit /\ LaterRest

SpecApplier == InitApplier /\ [][ApplierNext]_vars

\* ApplyEventQueries, the other parts at rest
InitApply ==
  ApplyInit /\ MergeRest /\ CheckerInit /\ InspectorRest /\ ApplierInit
    /\ LifecycleInit /\ LaterRest

SpecApply == InitApply /\ [][ApplyNext]_vars

\* onError and Shutdown, the other parts at rest
InitLifecycle ==
  LifecycleInit /\ MergeRest /\ CheckerInit /\ InspectorRest /\ ApplierInit
    /\ ApplyRest /\ LaterRest

SpecLifecycle == InitLifecycle /\ [][LifecycleNext]_vars

\* Run and the subscription, the other parts at rest
InitRun == RunInit /\ EarlierRest /\ StatsRest /\ LogRest /\ GtidRest

SpecRun == InitRun /\ [][RunNext]_vars

\* Stats, the other parts at rest
InitStats == StatsInit /\ EarlierRest /\ RunRest /\ LogRest /\ GtidRest

SpecStats == InitStats /\ [][StatsNext]_vars

\* the log of InitDBConnections, the other parts at rest
InitLog == LogInit /\ EarlierRest /\ RunRest /\ StatsRest /\ GtidRest

SpecLog == InitLog /\ [][LogNext]_vars

\* the GTID set and its checkpoints, the other parts at rest
InitGtid == GtidInit /\ EarlierRest /\ RunRest /\ StatsRest /\ LogRest

SpecGtid == InitGtid /\ [][GtidNext]_vars

====
